---- MODULE Spec2Model ----
(***************************************************************************)
(* Model of sl-cli: the process-wide site directory cache                  *)
(* (internal/api/cache.go), the bounded nearest-stop scan and the stop     *)
(* name resolver (cmd/departures.go), and the helpers of internal/api:     *)
(* FindNearestSites, ParseDepartures and the departure filters.            *)
(*                                                                         *)
(* Strings are sequences of one-character strings so that case folding and *)
(* substring search are computed, not assumed.  A Go slice is a sequence;  *)
(* where a slice reaches the JSON encoder the model also records whether   *)
(* it is the nil slice (field isNil), elsewhere nil and empty are <<>>.    *)
(***************************************************************************)
EXTENDS Integers, Sequences, FiniteSets, TLC

VARIABLES
    \* ---- site directory cache (globalSiteCache and its callers) ----
    mu,          \* holder of globalSiteCache.mu, 0 when unlocked
    cacheSites,  \* globalSiteCache.sites
    fetchedAt,   \* globalSiteCache.fetchedAt
    clock,       \* the wall clock, in minutes
    pc,          \* per caller: position inside GetSitesCached
    fetched,     \* per caller: local variable `sites` of GetSitesCached
    ret,         \* per caller: what the call returned
    gwCalls,     \* number of GetSites gateway calls issued so far
    fetchLog,    \* result of every successful gateway fetch, by fetch number
    sitesSrc,    \* fetch number that produced cacheSites (0: none)
    stampSrc,    \* fetch number that produced fetchedAt (0: none)
    \* ---- nearest-stop scan (departuresFromNearestMatching) ----
    nearby, depLine, depMode, depLimit,
    scanPc, scanIdx, scanCalls, scanOut, scanHist,
    \* ---- name resolver (resolveSiteID) ----
    rSites, rName, jsonOutput, rPc, rOut, stderr,
    \* ---- nearest sites (FindNearestSites as called by runNearby) ----
    fSites,      \* the site list handed to FindNearestSites
    fLat, fLon,  \* the query point
    fRadius,     \* radiusKm
    fPc,         \* position inside runNearby
    fOut,        \* the slice FindNearestSites returned
    stdout,      \* what format.JSON wrote
    \* ---- ParseDepartures ----
    pdIn,        \* the raw departures of the response
    pdClock,     \* the wall clock, in seconds
    pdNow,       \* local variable `now`
    pdPc,        \* position inside ParseDepartures
    pdOut,       \* local variable `parsed`, and the returned slice
    pdReads,     \* clock value seen by every read of the clock, in order
    pdAt,        \* clock value at which every record was processed
    \* ---- departure filters ----
    flDeps, flMode, flLine, flPc, flOut,
    \* ---- FilterByDirection ----
    drDeps, drFilter, drPc, drOut,
    \* ---- deviations of the lines of a departures list ----
    dvDeps,      \* the parsed departures
    dvLines,     \* the line designations asked for on the command line
    dvGateway,   \* what the deviations gateway answers
    dvLimit,     \* depLimit
    dvPc, dvOut,
    \* ---- runTrip ----
    tpGateway, tpJson, tpPc, tpOut,
    \* ---- runDeparturesByAddress ----
    adNearby, adFiltered, adGateway, adPc, adOut,
    \* ---- extractLines ----
    xlIn, xlPc, xlOut

cacheVars == <<mu, cacheSites, fetchedAt, clock, pc, fetched, ret, gwCalls,
               fetchLog, sitesSrc, stampSrc>>
scanVars == <<nearby, depLine, depMode, depLimit, scanPc, scanIdx, scanCalls,
              scanOut, scanHist>>
resVars == <<rSites, rName, jsonOutput, rPc, rOut, stderr>>
nearVars == <<fSites, fLat, fLon, fRadius, fPc, fOut, stdout>>
parseVars == <<pdIn, pdClock, pdNow, pdPc, pdOut, pdReads, pdAt>>
filterVars == <<flDeps, flMode, flLine, flPc, flOut>>
helperVars == <<nearVars, parseVars, filterVars>>
dirVars == <<drDeps, drFilter, drPc, drOut>>
devVars == <<dvDeps, dvLines, dvGateway, dvLimit, dvPc, dvOut>>
tripVars == <<tpGateway, tpJson, tpPc, tpOut>>
addrVars == <<adNearby, adFiltered, adGateway, adPc, adOut>>
xlVars == <<xlIn, xlPc, xlOut>>
commandVars == <<dirVars, devVars, tripVars, addrVars, xlVars>>
programVars == <<cacheVars, scanVars, resVars, helperVars>>
vars == <<cacheVars, scanVars, resVars, helperVars, commandVars>>

----------------------------------------------------------------------------
(* Bounds of the model *)

\* number of concurrent callers of GetSitesCached
NumProcs == 2
\* last minute the clock reaches
MaxClock == 6
\* total number of GetSites gateway calls explored
MaxFetches == 3

Procs == 1..NumProcs

----------------------------------------------------------------------------
(* Strings *)

\* strings.ToLower on the letters the model uses
LowerChar(c) ==
    CASE c = "A" -> "a"
      [] c = "B" -> "b"
      [] OTHER -> c

ToLower(s) == [i \in 1..Len(s) |-> LowerChar(s[i])]

\* strings.Contains(s, sub)
Contains(s, sub) ==
    \E k \in 0..(Len(s) - Len(sub)) :
        \A i \in 1..Len(sub) : s[k + i] = sub[i]

\* strings.EqualFold(a, b)
EqualFold(a, b) == ToLower(a) = ToLower(b)

\* strings.ToUpper on the letters the model uses
UpperChar(c) ==
    CASE c = "a" -> "A"
      [] c = "b" -> "B"
      [] OTHER -> c

ToUpper(s) == [i \in 1..Len(s) |-> UpperChar(s[i])]

----------------------------------------------------------------------------
(* Sites *)

Site(id, name, aliases) == [ID |-> id, Name |-> name, Aliases |-> aliases]

SiteAb == Site(1, <<"A", "b">>, <<>>)
SiteAba == Site(2, <<"A", "b", "a">>, <<>>)
SiteB == Site(3, <<"B">>, << <<"a", "B">> >>)
SiteaB == Site(4, <<"a", "B">>, <<>>)

\* the lists the gateway may answer GET /sites with
GatewaySiteLists == { <<>>, <<SiteAb>>, <<SiteAba, SiteAb>> }

----------------------------------------------------------------------------
(* Site directory cache *)

siteCacheTTL == 5

\* zero value of time.Time: far enough in the past that time.Since exceeds any TTL
ZeroTime == 0 - 1000

NoRet == [sites |-> <<>>, err |-> FALSE, hit |-> FALSE, src |-> 0,
          obsSites |-> 0, obsStamp |-> 0, fetchFailed |-> FALSE]

InitCache ==
    /\ mu = 0
    /\ cacheSites = <<>>
    /\ fetchedAt = ZeroTime
    /\ clock = 0
    /\ pc = [p \in Procs |-> "idle"]
    /\ fetched = [p \in Procs |-> <<>>]
    /\ ret = [p \in Procs |-> NoRet]
    /\ gwCalls = 0
    /\ fetchLog = <<>>
    /\ sitesSrc = 0
    /\ stampSrc = 0

\* time.Since(globalSiteCache.fetchedAt)
Age == clock - fetchedAt

\* mu.Lock() returns only when the mutex is free
MutexAvailableNoLock(p) == TRUE
MutexAvailable(p) == mu = 0

\* the condition of the cache-hit branch
CacheFreshInverted == Len(cacheSites) > 0 /\ Age > siteCacheTTL
CacheFresh == Len(cacheSites) > 0 /\ Age < siteCacheTTL

\* return nil, err
FailReturnStale(p) == [NoRet EXCEPT !.sites = cacheSites, !.err = FALSE]
FailReturn(p) == [NoRet EXCEPT !.sites = <<>>, !.err = TRUE]

\* a caller enters GetSitesCached and blocks on mu.Lock()
Call(p) ==
    /\ pc[p] = "idle"
    /\ gwCalls + Cardinality({q \in Procs : pc[q] \in {"waiting", "fetching"}}) < MaxFetches
    /\ pc' = [pc EXCEPT ![p] = "waiting"]
    /\ UNCHANGED <<mu, cacheSites, fetchedAt, clock, fetched, ret, gwCalls,
                   fetchLog, sitesSrc, stampSrc>>
    /\ UNCHANGED <<scanVars, resVars, helperVars, commandVars>>

\* mu.Lock() succeeds; the freshness check either returns the cached
\* snapshot (deferred Unlock) or issues the gateway call
AcquireKeepsLockOnHit(p) ==
    /\ pc[p] = "waiting"
    /\ MutexAvailable(p)
    /\ IF CacheFresh
       THEN /\ ret' = [ret EXCEPT ![p] =
                         [sites |-> cacheSites, err |-> FALSE, hit |-> TRUE,
                          src |-> sitesSrc, obsSites |-> sitesSrc,
                          obsStamp |-> stampSrc, fetchFailed |-> FALSE]]
            /\ pc' = [pc EXCEPT ![p] = "done"]
            /\ mu' = p
            /\ UNCHANGED gwCalls
       ELSE /\ ret' = [ret EXCEPT ![p] =
                         [NoRet EXCEPT !.obsSites = sitesSrc,
                                       !.obsStamp = stampSrc]]
            /\ pc' = [pc EXCEPT ![p] = "fetching"]
            /\ mu' = p
            /\ gwCalls' = gwCalls + 1
    /\ UNCHANGED <<cacheSites, fetchedAt, clock, fetched, fetchLog, sitesSrc,
                   stampSrc>>
    /\ UNCHANGED <<scanVars, resVars, helperVars, commandVars>>
Acquire(p) ==
    /\ pc[p] = "waiting"
    /\ MutexAvailable(p)
    /\ IF CacheFresh
       THEN /\ ret' = [ret EXCEPT ![p] =
                         [sites |-> cacheSites, err |-> FALSE, hit |-> TRUE,
                          src |-> sitesSrc, obsSites |-> sitesSrc,
                          obsStamp |-> stampSrc, fetchFailed |-> FALSE]]
            /\ pc' = [pc EXCEPT ![p] = "done"]
            /\ mu' = 0
            /\ UNCHANGED gwCalls
       ELSE /\ ret' = [ret EXCEPT ![p] =
                         [NoRet EXCEPT !.obsSites = sitesSrc,
                                       !.obsStamp = stampSrc]]
            /\ pc' = [pc EXCEPT ![p] = "fetching"]
            /\ mu' = p
            /\ gwCalls' = gwCalls + 1
    /\ UNCHANGED <<cacheSites, fetchedAt, clock, fetched, fetchLog, sitesSrc,
                   stampSrc>>
    /\ UNCHANGED <<scanVars, resVars, helperVars, commandVars>>

\* c.GetSites returns a list
FetchOkUnlocking(p) ==
    /\ pc[p] = "fetching"
    /\ \E l \in GatewaySiteLists :
         /\ fetched' = [fetched EXCEPT ![p] = l]
         /\ fetchLog' = Append(fetchLog, l)
    /\ ret' = [ret EXCEPT ![p].src = Len(fetchLog) + 1]
    /\ pc' = [pc EXCEPT ![p] = "storeSites"]
    /\ mu' = 0
    /\ UNCHANGED <<cacheSites, fetchedAt, clock, gwCalls, sitesSrc, stampSrc>>
    /\ UNCHANGED <<scanVars, resVars, helperVars, commandVars>>
FetchOk(p) ==
    /\ pc[p] = "fetching"
    /\ \E l \in GatewaySiteLists :
         /\ fetched' = [fetched EXCEPT ![p] = l]
         /\ fetchLog' = Append(fetchLog, l)
    /\ ret' = [ret EXCEPT ![p].src = Len(fetchLog) + 1]
    /\ pc' = [pc EXCEPT ![p] = "storeSites"]
    /\ UNCHANGED <<mu, cacheSites, fetchedAt, clock, gwCalls, sitesSrc, stampSrc>>
    /\ UNCHANGED <<scanVars, resVars, helperVars, commandVars>>

\* c.GetSites returns an error: return nil, err (deferred Unlock)
FetchFailClearing(p) ==
    /\ pc[p] = "fetching"
    /\ ret' = [ret EXCEPT ![p] =
                 [FailReturn(p) EXCEPT !.obsSites = ret[p].obsSites,
                                       !.obsStamp = ret[p].obsStamp,
                                       !.fetchFailed = TRUE]]
    /\ pc' = [pc EXCEPT ![p] = "done"]
    /\ mu' = IF mu = p THEN 0 ELSE mu
    /\ cacheSites' = <<>>
    /\ UNCHANGED <<fetchedAt, clock, fetched, gwCalls, fetchLog,
                   sitesSrc, stampSrc>>
    /\ UNCHANGED <<scanVars, resVars, helperVars, commandVars>>
FetchFail(p) ==
    /\ pc[p] = "fetching"
    /\ ret' = [ret EXCEPT ![p] =
                 [FailReturn(p) EXCEPT !.obsSites = ret[p].obsSites,
                                       !.obsStamp = ret[p].obsStamp,
                                       !.fetchFailed = TRUE]]
    /\ pc' = [pc EXCEPT ![p] = "done"]
    /\ mu' = IF mu = p THEN 0 ELSE mu
    /\ UNCHANGED <<cacheSites, fetchedAt, clock, fetched, gwCalls, fetchLog,
                   sitesSrc, stampSrc>>
    /\ UNCHANGED <<scanVars, resVars, helperVars, commandVars>>

\* globalSiteCache.sites = sites
StoreSites(p) ==
    /\ pc[p] = "storeSites"
    /\ cacheSites' = fetched[p]
    /\ sitesSrc' = ret[p].src
    /\ pc' = [pc EXCEPT ![p] = "storeStamp"]
    /\ UNCHANGED <<mu, fetchedAt, clock, fetched, ret, gwCalls, fetchLog, stampSrc>>
    /\ UNCHANGED <<scanVars, resVars, helperVars, commandVars>>

\* globalSiteCache.fetchedAt = time.Now(); return sites, nil (deferred Unlock)
StoreStampForgotten(p) ==
    /\ pc[p] = "storeStamp"
    /\ stampSrc' = ret[p].src
    /\ ret' = [ret EXCEPT ![p].sites = fetched[p]]
    /\ pc' = [pc EXCEPT ![p] = "done"]
    /\ mu' = IF mu = p THEN 0 ELSE mu
    /\ UNCHANGED <<cacheSites, fetchedAt, clock, fetched, gwCalls, fetchLog, sitesSrc>>
    /\ UNCHANGED <<scanVars, resVars, helperVars, commandVars>>
StoreStamp(p) ==
    /\ pc[p] = "storeStamp"
    /\ fetchedAt' = clock
    /\ stampSrc' = ret[p].src
    /\ ret' = [ret EXCEPT ![p].sites = fetched[p]]
    /\ pc' = [pc EXCEPT ![p] = "done"]
    /\ mu' = IF mu = p THEN 0 ELSE mu
    /\ UNCHANGED <<cacheSites, clock, fetched, gwCalls, fetchLog, sitesSrc>>
    /\ UNCHANGED <<scanVars, resVars, helperVars, commandVars>>

\* the caller consumes the result and may call again
Finish(p) ==
    /\ pc[p] = "done"
    /\ pc' = [pc EXCEPT ![p] = "idle"]
    /\ ret' = [ret EXCEPT ![p] = NoRet]
    /\ fetched' = [fetched EXCEPT ![p] = <<>>]
    /\ UNCHANGED <<mu, cacheSites, fetchedAt, clock, gwCalls, fetchLog,
                   sitesSrc, stampSrc>>
    /\ UNCHANGED <<scanVars, resVars, helperVars, commandVars>>

\* a minute passes
Tick ==
    /\ clock < MaxClock
    /\ clock' = clock + 1
    /\ UNCHANGED <<mu, cacheSites, fetchedAt, pc, fetched, ret, gwCalls,
                   fetchLog, sitesSrc, stampSrc>>
    /\ UNCHANGED <<scanVars, resVars, helperVars, commandVars>>

NextCache ==
    \/ \E p \in Procs : Call(p)
    \/ \E p \in Procs : Acquire(p)
    \/ \E p \in Procs : FetchOk(p)
    \/ \E p \in Procs : FetchFail(p)
    \/ \E p \in Procs : StoreSites(p)
    \/ \E p \in Procs : StoreStamp(p)
    \/ \E p \in Procs : Finish(p)
    \/ Tick

----------------------------------------------------------------------------
(* Departures: gateway answers, normalisation, filters *)

\* a raw departure: the nested line record may be absent
RawDep(hasLine, designation, mode) ==
    [HasLine |-> hasLine, Designation |-> designation, TransportMode |-> mode]

RawDepartures ==
    { RawDep(FALSE, <<>>, <<>>),
      RawDep(TRUE, <<"5", "5">>, <<"B">>),
      RawDep(TRUE, <<"5">>, <<"B">>),
      RawDep(TRUE, <<"5", "5">>, <<"A">>) }

\* longest departures list the gateway answers with
MaxDeps == 2

SeqsUpTo(S, n) == UNION { [1..k -> S] : k \in 0..n }

\* what GET /sites/{id}/departures may produce: a failure or a list
GatewayDepartureOutcomes ==
    { [err |-> TRUE, Departures |-> <<>>] } \cup
    { [err |-> FALSE, Departures |-> l] : l \in SeqsUpTo(RawDepartures, MaxDeps) }

\* Client.GetDepartures: site 0 is rejected before any request; the line
\* filter is applied to the decoded answer
GetDepartures(siteID, line, outcome) ==
    IF siteID = 0 THEN [err |-> TRUE, Departures |-> <<>>, called |-> FALSE]
    ELSE IF outcome.err THEN [err |-> TRUE, Departures |-> <<>>, called |-> TRUE]
    ELSE [err |-> FALSE,
          Departures |->
              IF line # <<>>
              THEN SelectSeq(outcome.Departures,
                             LAMBDA d : d.HasLine /\ EqualFold(d.Designation, line))
              ELSE outcome.Departures,
          called |-> TRUE]

\* ParseDepartures: flattening of the nested line record
ParseDepartures(departures) ==
    [i \in 1..Len(departures) |->
        [Line |-> IF departures[i].HasLine THEN departures[i].Designation ELSE <<>>,
         TransportMode |-> IF departures[i].HasLine
                           THEN departures[i].TransportMode ELSE <<>>]]

FilterByTransportMode(deps, mode) ==
    IF mode = <<>> THEN deps
    ELSE SelectSeq(deps, LAMBDA d : EqualFold(d.TransportMode, ToUpper(mode)))

----------------------------------------------------------------------------
(* Deviations attached to a departures answer *)

Deviation(hasScope, lines, variants) ==
    [HasScope |-> hasScope, Lines |-> lines, MessageVariants |-> variants]

DevNoScope == Deviation(FALSE, <<>>, << [Language |-> "sv", Header |-> "h1"] >>)
Dev55 == Deviation(TRUE, << <<"5", "5">> >>,
                   << [Language |-> "sv", Header |-> "h2"],
                      [Language |-> "en", Header |-> "h3"] >>)
Dev5 == Deviation(TRUE, << <<"5">>, <<"5", "5">> >>,
                  << [Language |-> "sv", Header |-> "h4"] >>)

\* what GET /messages may produce
GatewayDeviationOutcomes ==
    { [err |-> TRUE, Deviations |-> <<>>],
      [err |-> FALSE, Deviations |-> <<>>],
      [err |-> FALSE, Deviations |-> <<DevNoScope, Dev55, Dev5>>] }

\* index of the first scope line whose designation is in lineSet, 0 if none
FirstScopeLine(lines, lineSet) ==
    IF \E i \in 1..Len(lines) : lines[i] \in lineSet
    THEN CHOOSE i \in 1..Len(lines) :
             lines[i] \in lineSet /\ \A j \in 1..(i - 1) : lines[j] \notin lineSet
    ELSE 0

\* a variant is used when it is English, or Swedish and the only variant
VariantUsableEitherLanguage(variants, i) ==
    variants[i].Language \in { "en", "sv" }
VariantUsable(variants, i) ==
    \/ variants[i].Language = "en"
    \/ (variants[i].Language = "sv" /\ Len(variants) = 1)

\* index of the first usable message variant, 0 if none
FirstVariant(variants) ==
    IF \E i \in 1..Len(variants) : VariantUsable(variants, i)
    THEN CHOOSE i \in 1..Len(variants) :
             VariantUsable(variants, i)
             /\ \A j \in 1..(i - 1) : ~VariantUsable(variants, j)
    ELSE 0

\* the summary one deviation contributes: the first scope line in lineSet
\* decides, then the first usable variant
DeviationSummaries(dev, lineSet) ==
    IF ~dev.HasScope THEN <<>>
    ELSE LET li == FirstScopeLine(dev.Lines, lineSet) IN
         IF li = 0 THEN <<>>
         ELSE LET mi == FirstVariant(dev.MessageVariants) IN
              IF mi = 0 THEN <<>>
              ELSE << [Line |-> dev.Lines[li],
                       Header |-> dev.MessageVariants[mi].Header] >>

RECURSIVE CollectSummaries(_, _)
CollectSummaries(devs, lineSet) ==
    IF devs = <<>> THEN <<>>
    ELSE DeviationSummaries(Head(devs), lineSet) \o CollectSummaries(Tail(devs), lineSet)

\* fetchRelevantDeviations: no request when the departures name no line; a
\* failed request gives no deviations
fetchRelevantDeviations(deps, outcome) ==
    LET lineSet == { deps[i].Line : i \in { j \in 1..Len(deps) : deps[j].Line # <<>> } } IN
    IF lineSet = {} THEN <<>>
    ELSE IF outcome.err THEN <<>>
    ELSE CollectSummaries(outcome.Deviations, lineSet)

----------------------------------------------------------------------------
(* Nearest-stop scan: departuresFromNearestMatching *)

\* longest list of nearby stops handed to the scan
MaxNearby == 16

maxScan == 15

\* nearby[:maxScan]
ScanLimitUncapped(stops) == Len(stops)
ScanLimit(stops) == IF Len(stops) < maxScan THEN Len(stops) ELSE maxScan

\* the result of FindNearestSites as the scan receives it: sorted by
\* distance, neighbours in pairs at equal distance; zeroAt places a site
\* whose identifier is 0
NearbyList(n, zeroAt) ==
    [i \in 1..n |-> [ID |-> IF i = zeroAt THEN 0 ELSE i, DistanceKm |-> i \div 2]]

Truncate(s, limit) ==
    IF limit > 0 /\ Len(s) > limit THEN SubSeq(s, 1, limit) ELSE s

NoScanOut == [kind |-> "none", idx |-> 0, SiteID |-> 0, Departures |-> <<>>,
              Deviations |-> <<>>, matched |-> FALSE]

InitScan ==
    /\ \E n \in 1..MaxNearby, z \in {0, 2} : nearby = NearbyList(n, z)
    /\ depLine \in { <<>>, <<"5", "5">> }
    /\ depMode \in { <<>>, <<"B">>, <<"b">> }
    /\ depLine # <<>> \/ depMode # <<>>
    /\ depLimit \in {0, 1}
    /\ scanPc = "scan"
    /\ scanIdx = 1
    /\ scanCalls = <<>>
    /\ scanOut = NoScanOut
    /\ scanHist = [nErr |-> 0, nSkip |-> 0, missed |-> FALSE]

\* a raw departure the user's line and mode filters both accept
Matches(d) ==
    /\ depLine # <<>> => (d.HasLine /\ ToLower(d.Designation) = ToLower(depLine))
    /\ depMode # <<>> => (d.HasLine /\ ToLower(d.TransportMode) = ToLower(depMode))

HasMatch(outcome) ==
    ~outcome.err /\ \E i \in 1..Len(outcome.Departures) : Matches(outcome.Departures[i])

\* what the loop body does with one candidate's answer
ScanDecisionAbortOnError(r, parsed) ==
    IF r.err THEN "abort"
    ELSE IF Len(r.Departures) = 0 THEN "continue"
    ELSE IF Len(parsed) = 0 THEN "continue"
    ELSE "return"
ScanDecision(r, parsed) ==
    IF r.err THEN "continue"
    ELSE IF Len(r.Departures) = 0 THEN "continue"
    ELSE IF Len(parsed) = 0 THEN "continue"
    ELSE "return"

\* one iteration of the loop over nearby[:maxScan]
ScanStep ==
    /\ scanPc = "scan"
    /\ scanIdx <= ScanLimit(nearby)
    /\ \E o \in GatewayDepartureOutcomes :
         LET stop == nearby[scanIdx]
             r == GetDepartures(stop.ID, depLine, o)
             parsed0 == ParseDepartures(r.Departures)
             parsed == IF depMode # <<>>
                       THEN FilterByTransportMode(parsed0, depMode) ELSE parsed0
             decision == ScanDecision(r, parsed)
             failed == stop.ID = 0 \/ o.err
         IN
         /\ scanCalls' = IF r.called THEN Append(scanCalls, scanIdx) ELSE scanCalls
         /\ scanHist' =
              IF decision = "return" THEN scanHist
              ELSE [nErr |-> scanHist.nErr + (IF failed THEN 1 ELSE 0),
                    nSkip |-> scanHist.nSkip + (IF failed THEN 0 ELSE 1),
                    missed |-> scanHist.missed \/ (r.called /\ HasMatch(o))]
         /\ CASE decision = "return" ->
                   /\ \E dv \in GatewayDeviationOutcomes :
                        scanOut' = [kind |-> "found", idx |-> scanIdx,
                                    SiteID |-> stop.ID,
                                    Departures |-> Truncate(parsed, depLimit),
                                    Deviations |-> fetchRelevantDeviations(parsed, dv),
                                    matched |-> HasMatch(o)]
                   /\ scanPc' = "done"
                   /\ UNCHANGED scanIdx
              [] decision = "continue" ->
                   /\ scanIdx' = scanIdx + 1
                   /\ UNCHANGED <<scanOut, scanPc>>
              [] OTHER ->
                   /\ scanOut' = [NoScanOut EXCEPT !.kind = "aborted", !.idx = scanIdx]
                   /\ scanPc' = "done"
                   /\ UNCHANGED scanIdx
    /\ UNCHANGED <<nearby, depLine, depMode, depLimit>>
    /\ UNCHANGED <<cacheVars, resVars, helperVars, commandVars>>

\* the loop ran out of candidates: "<filter> not found at any stop within ..."
ScanExhausted ==
    /\ scanPc = "scan"
    /\ scanIdx > ScanLimit(nearby)
    /\ scanOut' = [NoScanOut EXCEPT !.kind = "notfound"]
    /\ scanPc' = "done"
    /\ UNCHANGED <<nearby, depLine, depMode, depLimit, scanIdx, scanCalls, scanHist>>
    /\ UNCHANGED <<cacheVars, resVars, helperVars, commandVars>>

NextScan == ScanStep \/ ScanExhausted

----------------------------------------------------------------------------
(* Name resolver: resolveSiteID, and Execute reporting its error *)

\* longest site list handed to the resolver
MaxSites == 3
\* longest name the user types
MaxNameLen == 2

Alphabet == {"a", "A", "b", "B"}

SiteUniverse == {SiteAb, SiteAba, SiteB, SiteaB}

Match(s) == [id |-> s.ID, name |-> s.Name]

\* the loop over sites: an exact match returns at once, a substring match of
\* the primary name is appended to matches
RECURSIVE ResolveLoop(_, _, _)
ResolveLoopCaseSensitive(sites, name, matches) ==
    IF sites = <<>> THEN [exact |-> FALSE, id |-> 0, matches |-> matches]
    ELSE LET s == Head(sites)
             nameLower == ToLower(name)
             sNameLower == ToLower(s.Name)
         IN IF s.Name = name
            THEN [exact |-> TRUE, id |-> s.ID, matches |-> matches]
            ELSE ResolveLoop(Tail(sites), name,
                     IF Contains(sNameLower, nameLower)
                     THEN Append(matches, Match(s)) ELSE matches)
ResolveLoop(sites, name, matches) ==
    IF sites = <<>> THEN [exact |-> FALSE, id |-> 0, matches |-> matches]
    ELSE LET s == Head(sites)
             nameLower == ToLower(name)
             sNameLower == ToLower(s.Name)
         IN IF sNameLower = nameLower
            THEN [exact |-> TRUE, id |-> s.ID, matches |-> matches]
            ELSE ResolveLoop(Tail(sites), name,
                     IF Contains(sNameLower, nameLower)
                     THEN Append(matches, Match(s)) ELSE matches)

\* what resolveSiteID writes to stderr for an ambiguous name
AmbiguousListingDropLast(matches) ==
    << [kind |-> "header"] >> \o
    [i \in 1..(Len(matches) - 1) |->
        [kind |-> "match", name |-> matches[i].name, id |-> matches[i].id]] \o
    << [kind |-> "hint"] >>
AmbiguousListing(matches) ==
    << [kind |-> "header"] >> \o
    [i \in 1..Len(matches) |->
        [kind |-> "match", name |-> matches[i].name, id |-> matches[i].id]] \o
    << [kind |-> "hint"] >>

\* the outcome policy after the loop: one match, several, none
ResolveOutcomePickFirst(name, matches) ==
    IF Len(matches) >= 1
    THEN [id |-> matches[1].id, err |-> "none", name |-> name, count |-> 0,
          out |-> <<>>]
    ELSE [id |-> 0, err |-> "notfound", name |-> name, count |-> 0, out |-> <<>>]
ResolveOutcome(name, matches) ==
    IF Len(matches) = 1
    THEN [id |-> matches[1].id, err |-> "none", name |-> name, count |-> 0,
          out |-> <<>>]
    ELSE IF Len(matches) > 1
    THEN [id |-> 0, err |-> "ambiguous", name |-> name, count |-> Len(matches),
          out |-> AmbiguousListing(matches)]
    ELSE [id |-> 0, err |-> "notfound", name |-> name, count |-> 0, out |-> <<>>]

\* resolveSiteID on the list GetSitesCached returned
resolveSiteID(sites, name) ==
    LET r == ResolveLoop(sites, name, <<>>) IN
    IF r.exact
    THEN [id |-> r.id, err |-> "none", name |-> name, count |-> 0, out |-> <<>>]
    ELSE ResolveOutcome(name, r.matches)

NoROut == [id |-> 0, err |-> "none", name |-> <<>>, count |-> 0, out |-> <<>>]

InitResolve ==
    /\ rSites \in SeqsUpTo(SiteUniverse, MaxSites)
    /\ rName \in SeqsUpTo(Alphabet, MaxNameLen)
    /\ jsonOutput \in BOOLEAN
    /\ rPc = "start"
    /\ rOut = NoROut
    /\ stderr = <<>>

\* GetSitesCached fails: "fetching sites: ..."
ResolveFetchFail ==
    /\ rPc = "start"
    /\ rOut' = [NoROut EXCEPT !.err = "fetching sites", !.name = rName]
    /\ rPc' = "returned"
    /\ UNCHANGED <<rSites, rName, jsonOutput, stderr>>
    /\ UNCHANGED <<cacheVars, scanVars, helperVars, commandVars>>

\* GetSitesCached returns rSites and the resolver runs on it
Resolve ==
    /\ rPc = "start"
    /\ LET r == resolveSiteID(rSites, rName) IN
         /\ rOut' = r
         /\ stderr' = stderr \o r.out
    /\ rPc' = "returned"
    /\ UNCHANGED <<rSites, rName, jsonOutput>>
    /\ UNCHANGED <<cacheVars, scanVars, helperVars, commandVars>>

\* Execute: an error of the command is written to stderr, as JSON under --json
Execute ==
    /\ rPc = "returned"
    /\ stderr' = IF rOut.err # "none"
                 THEN Append(stderr, [kind |-> "error", json |-> jsonOutput,
                                      err |-> rOut.err, name |-> rOut.name,
                                      count |-> rOut.count])
                 ELSE stderr
    /\ rPc' = "exit"
    /\ UNCHANGED <<rSites, rName, jsonOutput, rOut>>
    /\ UNCHANGED <<cacheVars, scanVars, helperVars, commandVars>>

NextResolve == ResolveFetchFail \/ Resolve \/ Execute

----------------------------------------------------------------------------
(* Geographic helpers: DistanceKm and FindNearestSites *)

\* longest site list drawn exhaustively
MaxGeoSites == 3
\* length of the longest patterned site list
MaxLongList == 13
\* largest search radius tried
MaxRadius == 2

\* a site with the coordinates FindNearestSites reads
GeoSite(id, lat, lon) == [ID |-> id, Lat |-> lat, Lon |-> lon]

GeoSites ==
    { GeoSite(1, 0, 0), GeoSite(2, 0, 1), GeoSite(3, 1, 0), GeoSite(4, 2, 0) }

\* a list whose first two sites are equally far from the origin and farther
\* than the sites that follow them
LongList(n) ==
    [i \in 1..n |->
        GeoSite(i, IF i <= 2 THEN n - 3 ELSE IF i <= n - 2 THEN i - 2 ELSE i - 1, 0)]

Abs(x) == IF x < 0 THEN 0 - x ELSE x

\* DistanceKm on the grid of the model: zero between equal points,
\* symmetric, growing with the separation of the points
DistanceKm(lat1, lon1, lat2, lon2) == Abs(lat2 - lat1) + Abs(lon2 - lon1)

\* the comparison that admits a site to the results
InRadiusStrict(d, radiusKm) == d < radiusKm
InRadius(d, radiusKm) == d <= radiusKm

\* sort.Slice sorts up to this many elements by insertion
maxInsertion == 12

\* insertion of position x into the sorted prefix s: x moves left past the
\* elements that are strictly farther (less(x, prev))
RECURSIVE InsertSorted(_, _, _)
InsertSortedAtEnd(s, x, d) == Append(s, x)
InsertSorted(s, x, d) ==
    IF s = <<>> \/ ~(d[x] < d[s[Len(s)]])
    THEN Append(s, x)
    ELSE Append(InsertSorted(SubSeq(s, 1, Len(s) - 1), x, d), s[Len(s)])

RECURSIVE InsertionSort(_, _)
InsertionSort(s, d) ==
    IF s = <<>> THEN <<>>
    ELSE InsertSorted(InsertionSort(SubSeq(s, 1, Len(s) - 1), d), s[Len(s)], d)

\* every enumeration of the set S
RECURSIVE Orders(_)
Orders(S) ==
    IF S = {} THEN { <<>> }
    ELSE UNION { { <<x>> \o t : t \in Orders(S \ {x}) } : x \in S }

\* every enumeration of S by non-decreasing d
RECURSIVE SortedOrders(_, _)
SortedOrders(S, d) ==
    IF S = {} THEN { <<>> }
    ELSE LET m == CHOOSE x \in S : \A y \in S : d[x] <= d[y]
             nearest == { x \in S : d[x] = d[m] }
         IN  UNION { { h \o t : t \in SortedOrders(S \ nearest, d) } :
                     h \in Orders(nearest) }

\* sort.Slice with less = "strictly nearer": the order it may leave the
\* positions s in.  Short slices are sorted by insertion; on longer ones the
\* sort partitions by swapping and is not stable, so elements that compare
\* equal end in an order the library does not promise.
SortSlice(s, d) ==
    IF Len(s) <= maxInsertion THEN { InsertionSort(s, d) }
    ELSE SortedOrders({ s[k] : k \in 1..Len(s) }, d)

\* FindNearestSites: the slices it may return.  results starts as the nil
\* slice and stays nil when no site is appended; order is the input position
\* of every element of the result
FindNearestSites(sites, lat, lon, radiusKm) ==
    LET d == [i \in 1..Len(sites) |->
                 DistanceKm(lat, lon, sites[i].Lat, sites[i].Lon)]
        results == SelectSeq([i \in 1..Len(sites) |-> i],
                             LAMBDA i : InRadius(d[i], radiusKm))
    IN  { [isNil |-> results = <<>>,
           order |-> o,
           elems |-> [k \in 1..Len(o) |->
                         [Site |-> sites[o[k]], DistanceKm |-> d[o[k]]]]] :
          o \in SortSlice(results, d) }

\* format.JSON: the encoder writes null for a nil slice and a list otherwise
JSON(v) == [null |-> v.isNil, items |-> v.elems]

NoSlice == [isNil |-> TRUE, order |-> <<>>, elems |-> <<>>]
NoOutput == [null |-> FALSE, items |-> <<>>]

InitNearest ==
    /\ \/ /\ fSites \in SeqsUpTo(GeoSites, MaxGeoSites)
          /\ fLat \in 0..1
          /\ fLon = 0
          /\ fRadius \in (0 - 1)..MaxRadius
       \/ /\ fSites \in { LongList(n) : n \in (maxInsertion + 1)..MaxLongList }
          /\ fLat = 0
          /\ fLon = 0
          /\ fRadius \in { 0, Len(fSites) }
    /\ fPc = "start"
    /\ fOut = NoSlice
    /\ stdout = NoOutput

\* runNearby: nearby := api.FindNearestSites(sites, lat, lon, nearbyRadius)
FindNearest ==
    /\ fPc = "start"
    /\ \E r \in FindNearestSites(fSites, fLat, fLon, fRadius) : fOut' = r
    /\ fPc' = "found"
    /\ UNCHANGED <<fSites, fLat, fLon, fRadius, stdout>>
    /\ UNCHANGED <<cacheVars, scanVars, resVars, parseVars, filterVars, commandVars>>

\* runNearby with --json and without --lines: return format.JSON(nearby)
PrintNearby ==
    /\ fPc = "found"
    /\ stdout' = JSON(fOut)
    /\ fPc' = "printed"
    /\ UNCHANGED <<fSites, fLat, fLon, fRadius, fOut>>
    /\ UNCHANGED <<cacheVars, scanVars, resVars, parseVars, filterVars, commandVars>>

NextNearest == FindNearest \/ PrintNearby

----------------------------------------------------------------------------
(* ParseDepartures, record by record, against a running clock *)

\* longest raw departures list parsed
MaxParse == 2
\* number of times the clock advances during the run
MaxTicks == 2
\* seconds by which the clock advances at a time
TickSeconds == 45

SecondsPerMinute == 60

\* a timestamp text of the response: empty, not a timestamp, or the
\* well-formed local time t seconds after the start of the run
TimeText(kind, t) == [kind |-> kind, t |-> t]

\* a time.Time: the zero value, or the instant t
NoInstant == [zero |-> TRUE, t |-> 0]
Instant(t) == [zero |-> FALSE, t |-> t]

\* model.Departure with its optional nested line, stop area and stop point
Departure(dest, scheduled, expected, hasLine, hasStopArea, hasStopPoint) ==
    [Destination |-> dest,
     Direction |-> <<"d">> \o dest,
     Display |-> <<"m">> \o dest,
     State |-> <<"s">> \o dest,
     Scheduled |-> scheduled,
     Expected |-> expected,
     HasLine |-> hasLine,
     Designation |-> IF hasLine THEN <<"5">> ELSE <<>>,
     TransportMode |-> IF hasLine THEN <<"B">> ELSE <<>>,
     GroupOfLines |-> IF hasLine THEN <<"g">> ELSE <<>>,
     HasStopArea |-> hasStopArea,
     StopAreaName |-> IF hasStopArea THEN <<"a">> ELSE <<>>,
     HasStopPoint |-> hasStopPoint,
     StopPointName |-> IF hasStopPoint THEN <<"b">> ELSE <<>>,
     StopPointDesignation |-> IF hasStopPoint THEN <<"A">> ELSE <<>>]

ScheduledTexts ==
    { TimeText("empty", 0), TimeText("text", 0),
      TimeText("stamp", 30), TimeText("stamp", 90) }
ExpectedTexts ==
    { TimeText("empty", 0), TimeText("text", 0),
      TimeText("stamp", 0 - 90), TimeText("stamp", 30) }

Departures ==
    { Departure(<<"a">>, TimeText("stamp", 30), TimeText("stamp", 30), l, a, p) :
        l \in BOOLEAN, a \in BOOLEAN, p \in BOOLEAN } \cup
    { Departure(<<"b">>, s, e, TRUE, TRUE, TRUE) :
        s \in ScheduledTexts, e \in ExpectedTexts }

\* time.ParseInLocation with the layout 2006-01-02T15:04:05
ParseInLocation(text) ==
    IF text.kind = "stamp"
    THEN [err |-> FALSE, t |-> Instant(text.t)]
    ELSE [err |-> TRUE, t |-> NoInstant]

\* a field copied from a nested record that may be absent
NestedFieldPlaceholder(present, value) == IF present THEN value ELSE <<"?">>
NestedField(present, value) == IF present THEN value ELSE <<>>

\* ref := pd.Expected; if ref.IsZero() { ref = pd.Scheduled }
ReferenceScheduledFirst(expected, scheduled) ==
    IF scheduled.zero THEN expected ELSE scheduled
Reference(expected, scheduled) ==
    IF expected.zero THEN scheduled ELSE expected

\* int(math.Ceil(d.Minutes())) of a duration of secs seconds
CeilMinutesTruncated(secs) ==
    IF secs < 0 THEN 0 - ((0 - secs) \div SecondsPerMinute)
    ELSE secs \div SecondsPerMinute
CeilMinutes(secs) == 0 - ((0 - secs) \div SecondsPerMinute)

\* the instant the minutes are counted from
RecordNowReread(now, clk) == clk
RecordNow(now, clk) == now

\* the body of the loop of ParseDepartures for one raw departure
ParseRecord(d, now) ==
    LET sched == ParseInLocation(d.Scheduled)
        exp == ParseInLocation(d.Expected)
        Scheduled == IF sched.err THEN NoInstant ELSE sched.t
        Expected == IF exp.err THEN NoInstant ELSE exp.t
        ref == Reference(Expected, Scheduled)
        mins == CeilMinutes(ref.t - now)
    IN  [Destination |-> d.Destination,
         Direction |-> d.Direction,
         Display |-> d.Display,
         State |-> d.State,
         Line |-> NestedField(d.HasLine, d.Designation),
         TransportMode |-> NestedField(d.HasLine, d.TransportMode),
         GroupOfLines |-> NestedField(d.HasLine, d.GroupOfLines),
         StopArea |-> NestedField(d.HasStopArea, d.StopAreaName),
         StopPoint |-> NestedField(d.HasStopPoint, d.StopPointName),
         Platform |-> NestedField(d.HasStopPoint, d.StopPointDesignation),
         Scheduled |-> Scheduled,
         Expected |-> Expected,
         MinutesLeft |-> IF ref.zero THEN 0
                         ELSE IF mins < 0 THEN 0 ELSE mins]

\* parsed = append(parsed, pd)
AppendParsedFront(parsed, pd) == <<pd>> \o parsed
AppendParsed(parsed, pd) == Append(parsed, pd)

NilSlice == [isNil |-> TRUE, elems |-> <<>>]

InitParse ==
    /\ pdIn \in SeqsUpTo(Departures, MaxParse)
    /\ pdClock = 0
    /\ pdNow = 0
    /\ pdPc = "start"
    /\ pdOut = NilSlice
    /\ pdReads = <<>>
    /\ pdAt = <<>>

\* the clock advances while the call is under way
PdTick ==
    /\ pdPc # "done"
    /\ pdClock < MaxTicks * TickSeconds
    /\ pdClock' = pdClock + TickSeconds
    /\ UNCHANGED <<pdIn, pdNow, pdPc, pdOut, pdReads, pdAt>>
    /\ UNCHANGED <<cacheVars, scanVars, resVars, nearVars, filterVars, commandVars>>

\* now := time.Now().In(loc); var parsed []model.ParsedDeparture
PdBegin ==
    /\ pdPc = "start"
    /\ pdNow' = pdClock
    /\ pdReads' = Append(pdReads, pdClock)
    /\ pdOut' = NilSlice
    /\ pdPc' = "loop"
    /\ UNCHANGED <<pdIn, pdClock, pdAt>>
    /\ UNCHANGED <<cacheVars, scanVars, resVars, nearVars, filterVars, commandVars>>

\* one iteration of the loop over departures
PdRecord ==
    /\ pdPc = "loop"
    /\ Len(pdOut.elems) < Len(pdIn)
    /\ LET d == pdIn[Len(pdOut.elems) + 1]
           pd == ParseRecord(d, RecordNow(pdNow, pdClock))
       IN  pdOut' = [isNil |-> FALSE, elems |-> AppendParsed(pdOut.elems, pd)]
    /\ pdAt' = Append(pdAt, pdClock)
    /\ UNCHANGED <<pdIn, pdClock, pdNow, pdPc, pdReads>>
    /\ UNCHANGED <<cacheVars, scanVars, resVars, nearVars, filterVars, commandVars>>

\* return parsed
PdReturn ==
    /\ pdPc = "loop"
    /\ Len(pdOut.elems) = Len(pdIn)
    /\ pdPc' = "done"
    /\ UNCHANGED <<pdIn, pdClock, pdNow, pdOut, pdReads, pdAt>>
    /\ UNCHANGED <<cacheVars, scanVars, resVars, nearVars, filterVars, commandVars>>

NextParse == PdTick \/ PdBegin \/ PdRecord \/ PdReturn

----------------------------------------------------------------------------
(* Departure filters: FilterByTransportMode and FilterByLine *)

\* longest parsed departures list filtered
MaxFilter == 2

\* the fields of model.ParsedDeparture the filters read
Parsed(line, mode) == [Line |-> line, TransportMode |-> mode]

ParsedDepartures ==
    { Parsed(<<"5">>, <<"B">>), Parsed(<<"5", "5">>, <<"B">>),
      Parsed(<<"5", "b">>, <<"A">>), Parsed(<<"5", "B">>, <<"b">>),
      Parsed(<<"5", "5">>, <<"A">>), Parsed(<<"5">>, <<"a">>) }

ModeFilters == { <<>>, <<"a">>, <<"A">>, <<"b">>, <<"B">>, <<"A", "B">> }
LineFilters == { <<>>, <<"5">>, <<"5", "5">>, <<"5", "b">>, <<"5", "B">> }

FilterByLineContains(deps, line) ==
    IF line = <<>> THEN deps
    ELSE SelectSeq(deps, LAMBDA d : Contains(ToLower(d.Line), ToLower(line)))
FilterByLine(deps, line) ==
    IF line = <<>> THEN deps
    ELSE SelectSeq(deps, LAMBDA d : EqualFold(d.Line, line))

NoFilterOut == [byMode |-> <<>>, byLine |-> <<>>]

InitFilter ==
    /\ flDeps \in SeqsUpTo(ParsedDepartures, MaxFilter)
    /\ flMode \in ModeFilters
    /\ flLine \in LineFilters
    /\ flPc = "start"
    /\ flOut = NoFilterOut

\* api.FilterByTransportMode(parsed, depMode)
FilterMode ==
    /\ flPc = "start"
    /\ flOut' = [flOut EXCEPT !.byMode = FilterByTransportMode(flDeps, flMode)]
    /\ flPc' = "mode"
    /\ UNCHANGED <<flDeps, flMode, flLine>>
    /\ UNCHANGED <<cacheVars, scanVars, resVars, nearVars, parseVars, commandVars>>

\* api.FilterByLine(parsed, line)
FilterLine ==
    /\ flPc = "mode"
    /\ flOut' = [flOut EXCEPT !.byLine = FilterByLine(flDeps, flLine)]
    /\ flPc' = "done"
    /\ UNCHANGED <<flDeps, flMode, flLine>>
    /\ UNCHANGED <<cacheVars, scanVars, resVars, nearVars, parseVars, commandVars>>

NextFilter == FilterMode \/ FilterLine

----------------------------------------------------------------------------
(* FilterByDirection *)

\* longest parsed departures list filtered by direction
MaxDirected == 2

\* the fields of model.ParsedDeparture that FilterByDirection reads
Directed(destination, direction) ==
    [Destination |-> destination, Direction |-> direction]

DirectedDepartures ==
    { Directed(<<"a", "b">>, <<"A">>), Directed(<<"B">>, <<"b", "a">>),
      Directed(<<"a">>, <<"a">>), Directed(<<"b">>, <<"A", "B">>),
      Directed(<<>>, <<"B", "A">>) }

DirectionFilters ==
    { <<>>, <<"a">>, <<"A">>, <<"b">>, <<"a", "b">>, <<"B", "A">> }

FilterByDirectionDestinationOnly(deps, direction) ==
    IF direction = <<>> THEN deps
    ELSE SelectSeq(deps, LAMBDA d :
             Contains(ToLower(d.Destination), ToLower(direction)))
FilterByDirection(deps, direction) ==
    IF direction = <<>> THEN deps
    ELSE SelectSeq(deps, LAMBDA d :
             \/ Contains(ToLower(d.Destination), ToLower(direction))
             \/ Contains(ToLower(d.Direction), ToLower(direction)))

InitDirection ==
    /\ drDeps \in SeqsUpTo(DirectedDepartures, MaxDirected)
    /\ drFilter \in DirectionFilters
    /\ drPc = "start"
    /\ drOut = <<>>

\* api.FilterByDirection(parsed, direction)
FilterDirection ==
    /\ drPc = "start"
    /\ drOut' = FilterByDirection(drDeps, drFilter)
    /\ drPc' = "done"
    /\ UNCHANGED <<drDeps, drFilter>>
    /\ UNCHANGED <<programVars, devVars, tripVars, addrVars, xlVars>>

NextDirection == FilterDirection

----------------------------------------------------------------------------
(* Deviations of the lines of a departures list: fetchAndPrintDepartures  *)
(* with fetchRelevantDeviations, and filterDeviationsByLine               *)

\* longest deviations list the gateway answers with
MaxDevs == 2

\* English before Swedish, scope line 55
DevEnFirst == Deviation(TRUE, << <<"5", "5">> >>,
                        << [Language |-> "en", Header |-> "h5"],
                           [Language |-> "sv", Header |-> "h6"] >>)
\* two Swedish variants and no English one, scope line 5
DevTwoSv == Deviation(TRUE, << <<"5">> >>,
                      << [Language |-> "sv", Header |-> "h7"],
                         [Language |-> "sv", Header |-> "h8"] >>)
\* scope line 5B
DevUpper == Deviation(TRUE, << <<"5", "B">> >>,
                      << [Language |-> "sv", Header |-> "h9"] >>)

Deviations == { DevNoScope, Dev55, Dev5, DevEnFirst, DevTwoSv, DevUpper }

\* what GET /messages may produce: a failure or a list
DeviationAnswers ==
    { [err |-> TRUE, Deviations |-> <<>>] } \cup
    { [err |-> FALSE, Deviations |-> l] : l \in SeqsUpTo(Deviations, MaxDevs) }

\* the parsed departures the deviations are looked up for
EnrichedDepartures ==
    { <<>>,
      << [Line |-> <<>>, TransportMode |-> <<>>] >>,
      << [Line |-> <<"5">>, TransportMode |-> <<"B">>] >>,
      << [Line |-> <<"5", "5">>, TransportMode |-> <<"B">>] >>,
      << [Line |-> <<"5", "5">>, TransportMode |-> <<"B">>],
         [Line |-> <<"5">>, TransportMode |-> <<"A">>] >> }

\* --line of sl deviations, split at the commas
RequestedLines ==
    { <<>>, << <<"5">> >>, << <<"5", "5">> >>, << <<"5", "b">> >>,
      << <<"5", "5">>, <<"5">> >> }

\* filterDeviationsByLine: designations are compared in lower case
filterDeviationsByLine(devs, designations) ==
    LET designSet == { ToLower(designations[i]) : i \in 1..Len(designations) } IN
    SelectSeq(devs, LAMBDA dev :
        /\ dev.HasScope
        /\ \E i \in 1..Len(dev.Lines) : ToLower(dev.Lines[i]) \in designSet)

\* the line designations fetchRelevantDeviations collects from deps
LineSet(deps) ==
    { deps[i].Line : i \in { j \in 1..Len(deps) : deps[j].Line # <<>> } }

\* positions of the deviations of the answer that contribute a summary
SummarySources(deps, outcome) ==
    IF LineSet(deps) = {} \/ outcome.err THEN <<>>
    ELSE SelectSeq([i \in 1..Len(outcome.Deviations) |-> i],
                   LAMBDA i : DeviationSummaries(outcome.Deviations[i],
                                                 LineSet(deps)) # <<>>)

NoEnriched ==
    [err |-> FALSE, Departures |-> <<>>, Deviations |-> <<>>, from |-> <<>>,
     filtered |-> <<>>]

InitDeviations ==
    /\ dvDeps \in EnrichedDepartures
    /\ dvLines \in RequestedLines
    /\ dvGateway \in DeviationAnswers
    /\ dvLimit \in 0..1
    /\ dvPc = "start"
    /\ dvOut = NoEnriched

\* fetchAndPrintDepartures after the departures were fetched and parsed:
\* the deviations are looked up for all of them, the departures are cut to
\* the limit and the result is put together
EnrichPropagating ==
    /\ dvPc = "start"
    /\ dvOut' = IF LineSet(dvDeps) # {} /\ dvGateway.err
                THEN [NoEnriched EXCEPT !.err = TRUE]
                ELSE [NoEnriched EXCEPT
                         !.Departures = Truncate(dvDeps, dvLimit),
                         !.Deviations = fetchRelevantDeviations(dvDeps, dvGateway),
                         !.from = SummarySources(dvDeps, dvGateway)]
    /\ dvPc' = "enriched"
    /\ UNCHANGED <<dvDeps, dvLines, dvGateway, dvLimit>>
    /\ UNCHANGED <<programVars, dirVars, tripVars, addrVars, xlVars>>
Enrich ==
    /\ dvPc = "start"
    /\ dvOut' = [NoEnriched EXCEPT
                    !.Departures = Truncate(dvDeps, dvLimit),
                    !.Deviations = fetchRelevantDeviations(dvDeps, dvGateway),
                    !.from = SummarySources(dvDeps, dvGateway)]
    /\ dvPc' = "enriched"
    /\ UNCHANGED <<dvDeps, dvLines, dvGateway, dvLimit>>
    /\ UNCHANGED <<programVars, dirVars, tripVars, addrVars, xlVars>>

\* runDeviations: the answer is filtered by the requested designations
FilterDeviations ==
    /\ dvPc = "enriched"
    /\ ~dvGateway.err
    /\ dvOut' = [dvOut EXCEPT
                    !.filtered = filterDeviationsByLine(dvGateway.Deviations, dvLines)]
    /\ dvPc' = "done"
    /\ UNCHANGED <<dvDeps, dvLines, dvGateway, dvLimit>>
    /\ UNCHANGED <<programVars, dirVars, tripVars, addrVars, xlVars>>

NextDeviations == Enrich \/ FilterDeviations

----------------------------------------------------------------------------
(* runTrip *)

\* most system messages in a journey planner answer
MaxMessages == 2

SystemMessageTypes == { "error", "warning", "message" }

JourneyLists == { <<>>, <<"j1">>, <<"j1", "j2">> }

\* the outcome of the calls of one runTrip: resolving the two locations may
\* fail, PlanTrip may fail, or PlanTrip answers with messages and journeys
TripAnswers ==
    { [resolveErr |-> r, err |-> TRUE, SystemMessages |-> <<>>, Journeys |-> <<>>] :
        r \in BOOLEAN } \cup
    { [resolveErr |-> FALSE, err |-> FALSE, SystemMessages |-> m, Journeys |-> j] :
        m \in SeqsUpTo(SystemMessageTypes, MaxMessages), j \in JourneyLists }

\* the loop over resp.SystemMessages finds a message of type error
HasSystemErrorFirstOnly(messages) ==
    Len(messages) > 0 /\ messages[1] = "error"
HasSystemError(messages) ==
    \E i \in 1..Len(messages) : messages[i] = "error"

NoTripOut == [err |-> "none", printed |-> FALSE, json |-> FALSE, Journeys |-> <<>>]

InitTrip ==
    /\ tpGateway \in TripAnswers
    /\ tpJson \in BOOLEAN
    /\ tpPc = "start"
    /\ tpOut = NoTripOut

\* runTrip: resolve both ends, plan the trip, fail on a system message of
\* type error, else print the journeys as JSON or as text
RunTrip ==
    /\ tpPc = "start"
    /\ tpOut' =
          IF tpGateway.resolveErr THEN [NoTripOut EXCEPT !.err = "resolving"]
          ELSE IF tpGateway.err THEN [NoTripOut EXCEPT !.err = "planning trip"]
          ELSE IF HasSystemError(tpGateway.SystemMessages)
               THEN [NoTripOut EXCEPT !.err = "journey planner"]
          ELSE [err |-> "none", printed |-> TRUE, json |-> tpJson,
                Journeys |-> tpGateway.Journeys]
    /\ tpPc' = "done"
    /\ UNCHANGED <<tpGateway, tpJson>>
    /\ UNCHANGED <<programVars, dirVars, devVars, addrVars, xlVars>>

NextTrip == RunTrip

----------------------------------------------------------------------------
(* runDeparturesByAddress *)

\* most stops inside the radius of the address
MaxAddrStops == 6

\* the outcomes of the calls of one run: geocoding, the site directory and
\* the departures of one stop may each fail
AddressGateways ==
    [geocodeErr : BOOLEAN, sitesErr : BOOLEAN, departuresErr : BOOLEAN]

NoAddrOut == [err |-> "none", via |-> "none", stops |-> <<>>]

InitAddress ==
    /\ \E n \in 0..MaxAddrStops : adNearby = NearbyList(n, 0)
    /\ adFiltered \in BOOLEAN
    /\ adGateway \in AddressGateways
    /\ adPc = "start"
    /\ adOut = NoAddrOut

\* runDeparturesByAddress: geocode, fetch the sites, find the stops within
\* the radius; with --line or --mode hand them to the scan, otherwise fetch
\* and print the departures of the closest stop.  stops lists the stops
\* whose departures were printed
RunByAddress ==
    /\ adPc = "start"
    /\ adOut' =
          IF adGateway.geocodeErr THEN [NoAddrOut EXCEPT !.err = "geocoding address"]
          ELSE IF adGateway.sitesErr THEN [NoAddrOut EXCEPT !.err = "fetching sites"]
          ELSE IF Len(adNearby) = 0 THEN [NoAddrOut EXCEPT !.err = "no stops found"]
          ELSE IF adFiltered THEN [NoAddrOut EXCEPT !.via = "scan"]
          ELSE IF adGateway.departuresErr
               THEN [NoAddrOut EXCEPT !.err = "fetching departures", !.via = "closest"]
          ELSE [err |-> "none", via |-> "closest", stops |-> << adNearby[1].ID >>]
    /\ adPc' = "done"
    /\ UNCHANGED <<adNearby, adFiltered, adGateway>>
    /\ UNCHANGED <<programVars, dirVars, devVars, tripVars, xlVars>>

NextAddress == RunByAddress

----------------------------------------------------------------------------
(* extractLines *)

\* longest parsed departures list grouped into lines
MaxExtract == 3

\* the fields of model.ParsedDeparture that extractLines reads
LineDeparture(line, mode, group, destination) ==
    [Line |-> line, TransportMode |-> mode, GroupOfLines |-> group,
     Destination |-> destination]

LineDepartures ==
    { LineDeparture(k[1], k[2], k[3], dest) :
        k \in { << <<"5">>, <<"B">>, <<>> >>, << <<"5">>, <<"B">>, <<"a">> >>,
                << <<"5">>, <<"A">>, <<>> >>, << <<"5", "5">>, <<"B">>, <<>> >> },
        dest \in { <<>>, <<"a">>, <<"b">> } }

\* lineKey{d.Line, d.TransportMode, d.GroupOfLines}
lineKey(d) ==
    [designation |-> d.Line, transportMode |-> d.TransportMode,
     groupOfLines |-> d.GroupOfLines]

\* lineOrder: every key, appended when it is first seen
RECURSIVE lineOrder(_)
lineOrder(parsed) ==
    IF parsed = <<>> THEN <<>>
    ELSE LET front == lineOrder(SubSeq(parsed, 1, Len(parsed) - 1))
             key == lineKey(parsed[Len(parsed)])
         IN  IF \E i \in 1..Len(front) : front[i] = key
             THEN front ELSE Append(front, key)

\* lineMap[key]: the non-empty destinations of the departures with the key
lineMapWithEmpty(parsed, key) ==
    { parsed[i].Destination : i \in { j \in 1..Len(parsed) : lineKey(parsed[j]) = key } }
lineMap(parsed, key) ==
    { parsed[i].Destination :
        i \in { j \in 1..Len(parsed) :
                  lineKey(parsed[j]) = key /\ parsed[j].Destination # <<>> } }

\* extractLines: the lists it may return.  The destinations of a line are
\* read out of a map, in an order the language leaves open
extractLines(parsed) ==
    LET order == lineOrder(parsed)
        dests == UNION { Orders(lineMap(parsed, order[i])) : i \in 1..Len(order) }
    IN  { [i \in 1..Len(order) |->
              [Designation |-> order[i].designation,
               TransportMode |-> order[i].transportMode,
               GroupOfLines |-> order[i].groupOfLines,
               Destinations |-> o[i]]] :
          o \in { f \in [1..Len(order) -> dests] :
                    \A i \in 1..Len(order) : f[i] \in Orders(lineMap(parsed, order[i])) } }

InitExtract ==
    /\ xlIn \in SeqsUpTo(LineDepartures, MaxExtract)
    /\ xlPc = "start"
    /\ xlOut = <<>>

\* lines := extractLines(parsed)
ExtractLines ==
    /\ xlPc = "start"
    /\ \E r \in extractLines(xlIn) : xlOut' = r
    /\ xlPc' = "done"
    /\ UNCHANGED xlIn
    /\ UNCHANGED <<programVars, dirVars, devVars, tripVars, addrVars>>

NextExtract == ExtractLines

----------------------------------------------------------------------------
(* Specifications *)

\* the variables of the components a specification does not exercise
IdleScan ==
    /\ nearby = <<>>
    /\ depLine = <<>>
    /\ depMode = <<>>
    /\ depLimit = 0
    /\ scanPc = "off"
    /\ scanIdx = 0
    /\ scanCalls = <<>>
    /\ scanOut = NoScanOut
    /\ scanHist = [nErr |-> 0, nSkip |-> 0, missed |-> FALSE]

IdleResolve ==
    /\ rSites = <<>>
    /\ rName = <<>>
    /\ jsonOutput = FALSE
    /\ rPc = "off"
    /\ rOut = NoROut
    /\ stderr = <<>>

IdleCache ==
    /\ mu = 0
    /\ cacheSites = <<>>
    /\ fetchedAt = ZeroTime
    /\ clock = 0
    /\ pc = [p \in Procs |-> "off"]
    /\ fetched = [p \in Procs |-> <<>>]
    /\ ret = [p \in Procs |-> NoRet]
    /\ gwCalls = 0
    /\ fetchLog = <<>>
    /\ sitesSrc = 0
    /\ stampSrc = 0

IdleNearest ==
    /\ fSites = <<>>
    /\ fLat = 0
    /\ fLon = 0
    /\ fRadius = 0
    /\ fPc = "off"
    /\ fOut = NoSlice
    /\ stdout = NoOutput

IdleParse ==
    /\ pdIn = <<>>
    /\ pdClock = 0
    /\ pdNow = 0
    /\ pdPc = "off"
    /\ pdOut = NilSlice
    /\ pdReads = <<>>
    /\ pdAt = <<>>

IdleFilter ==
    /\ flDeps = <<>>
    /\ flMode = <<>>
    /\ flLine = <<>>
    /\ flPc = "off"
    /\ flOut = NoFilterOut

IdleHelpers == IdleNearest /\ IdleParse /\ IdleFilter

IdleDirection ==
    /\ drDeps = <<>>
    /\ drFilter = <<>>
    /\ drPc = "off"
    /\ drOut = <<>>

IdleDeviations ==
    /\ dvDeps = <<>>
    /\ dvLines = <<>>
    /\ dvGateway = [err |-> FALSE, Deviations |-> <<>>]
    /\ dvLimit = 0
    /\ dvPc = "off"
    /\ dvOut = NoEnriched

IdleTrip ==
    /\ tpGateway = [resolveErr |-> FALSE, err |-> FALSE, SystemMessages |-> <<>>,
                    Journeys |-> <<>>]
    /\ tpJson = FALSE
    /\ tpPc = "off"
    /\ tpOut = NoTripOut

IdleAddress ==
    /\ adNearby = <<>>
    /\ adFiltered = FALSE
    /\ adGateway = [geocodeErr |-> FALSE, sitesErr |-> FALSE, departuresErr |-> FALSE]
    /\ adPc = "off"
    /\ adOut = NoAddrOut

IdleExtract ==
    /\ xlIn = <<>>
    /\ xlPc = "off"
    /\ xlOut = <<>>

IdleCommands ==
    IdleDirection /\ IdleDeviations /\ IdleTrip /\ IdleAddress /\ IdleExtract

\* concurrent callers of GetSitesCached
InitCacheSpec == InitCache /\ IdleScan /\ IdleResolve /\ IdleHelpers /\ IdleCommands
SpecCache == InitCacheSpec /\ [][NextCache]_vars

\* departuresFromNearestMatching on a list of nearby stops
InitScanSpec == InitScan /\ IdleCache /\ IdleResolve /\ IdleHelpers /\ IdleCommands
SpecScan == InitScanSpec /\ [][NextScan]_vars

\* resolveSiteID on a site list and a typed name
InitResolveSpec == InitResolve /\ IdleCache /\ IdleScan /\ IdleHelpers /\ IdleCommands
SpecResolve == InitResolveSpec /\ [][NextResolve]_vars

IdlePrograms == IdleCache /\ IdleScan /\ IdleResolve

\* FindNearestSites on a site list, a query point and a radius
InitNearestSpec == InitNearest /\ IdlePrograms /\ IdleParse /\ IdleFilter /\ IdleCommands
SpecNearest == InitNearestSpec /\ [][NextNearest]_vars

\* ParseDepartures on a raw departures list while the clock runs
InitParseSpec == InitParse /\ IdlePrograms /\ IdleNearest /\ IdleFilter /\ IdleCommands
SpecParse == InitParseSpec /\ [][NextParse]_vars

\* the departure filters on a parsed list
InitFilterSpec == InitFilter /\ IdlePrograms /\ IdleNearest /\ IdleParse /\ IdleCommands
SpecFilter == InitFilterSpec /\ [][NextFilter]_vars

\* FilterByDirection on a parsed list
InitDirectionSpec ==
    /\ InitDirection /\ IdlePrograms /\ IdleHelpers
    /\ IdleDeviations /\ IdleTrip /\ IdleAddress /\ IdleExtract
SpecDirection == InitDirectionSpec /\ [][NextDirection]_vars

\* the deviations of a departures list and of a line request
InitDeviationsSpec ==
    /\ InitDeviations /\ IdlePrograms /\ IdleHelpers
    /\ IdleDirection /\ IdleTrip /\ IdleAddress /\ IdleExtract
SpecDeviations == InitDeviationsSpec /\ [][NextDeviations]_vars

\* runTrip on the outcomes of its gateway calls
InitTripSpec ==
    /\ InitTrip /\ IdlePrograms /\ IdleHelpers
    /\ IdleDirection /\ IdleDeviations /\ IdleAddress /\ IdleExtract
SpecTrip == InitTripSpec /\ [][NextTrip]_vars

\* sl departures --address
InitAddressSpec ==
    /\ InitAddress /\ IdlePrograms /\ IdleHelpers
    /\ IdleDirection /\ IdleDeviations /\ IdleTrip /\ IdleExtract
SpecAddress == InitAddressSpec /\ [][NextAddress]_vars

\* extractLines on a parsed list
InitExtractSpec ==
    /\ InitExtract /\ IdlePrograms /\ IdleHelpers
    /\ IdleDirection /\ IdleDeviations /\ IdleTrip /\ IdleAddress
SpecExtract == InitExtractSpec /\ [][NextExtract]_vars

\* an invocation that runs to its end: callers of GetSitesCached contending
\* for the lock, or the scan of the nearby stops.  A caller blocked in
\* mu.Lock() gets the mutex if it is free again and again (sync.Mutex hands
\* the lock to a waiter that has waited long), a gateway call returns or
\* fails within DefaultTimeout, and a running goroutine takes its next step.
InitLive ==
    \/ InitCacheSpec
    \/ /\ InitScanSpec
       /\ Len(nearby) \in { 1, maxScan, MaxNearby }
       /\ depLine = <<"5", "5">> /\ depMode = <<>> /\ depLimit = 0
\* the steps of the callers; the clock stands still, a caller takes the same
\* steps whatever the age of the snapshot it finds
NextCallers ==
    \E p \in Procs :
        \/ Call(p) \/ Acquire(p) \/ FetchOk(p) \/ FetchFail(p)
        \/ StoreSites(p) \/ StoreStamp(p) \/ Finish(p)
NextLive == NextCallers \/ NextScan
FairLive ==
    /\ \A p \in Procs : SF_vars(Acquire(p))
    /\ \A p \in Procs : WF_vars(FetchOk(p) \/ FetchFail(p))
    /\ \A p \in Procs : WF_vars(StoreSites(p))
    /\ \A p \in Procs : WF_vars(StoreStamp(p))
    /\ WF_vars(ScanStep)
    /\ WF_vars(ScanExhausted)
SpecLive == InitLive /\ [][NextLive]_vars /\ FairLive

----------------------------------------------------------------------------
(* Properties of the site directory cache (SpecCache) *)

\* a caller leaves mu.Lock() in this step
Checks(p) == pc[p] = "waiting" /\ pc'[p] # "waiting"

\* C1 as stated: once a fetch has succeeded, every call that runs its
\* freshness check while that fetch is younger than the TTL returns the list
\* of that fetch and issues no gateway call, whatever list was fetched
C1_AnyList ==
    [][\A p \in Procs :
         (Checks(p) /\ stampSrc > 0 /\ Age < siteCacheTTL)
         => /\ pc'[p] = "done"
            /\ ~ret'[p].err
            /\ ret'[p].sites = fetchLog[stampSrc]
            /\ gwCalls' = gwCalls]_vars

\* C1 amended: the same, for a fetch that returned a non-empty list
C1_FreshHit ==
    [][\A p \in Procs :
         (Checks(p) /\ stampSrc > 0 /\ Len(fetchLog[stampSrc]) > 0
                    /\ Age < siteCacheTTL)
         => /\ pc'[p] = "done"
            /\ ~ret'[p].err
            /\ ret'[p].sites = fetchLog[stampSrc]
            /\ gwCalls' = gwCalls]_vars

\* a call was served from a snapshot fetched some minutes earlier
C1_Witness ==
    \E p \in Procs :
        /\ pc[p] = "done" /\ ret[p].hit
        /\ Len(ret[p].sites) > 0
        /\ clock > fetchedAt

\* C2: on a miss or an expired snapshot the call issues one gateway fetch,
\* no other fetch is issued until it returns, and a successful fetch replaces
\* snapshot and timestamp and is what the call returns
C2_MissRefetches ==
    [][\A p \in Procs :
         /\ (Checks(p) /\ (Len(cacheSites) = 0 \/ Age >= siteCacheTTL))
            => (pc'[p] = "fetching" /\ gwCalls' = gwCalls + 1)
         /\ pc[p] \in {"fetching", "storeSites", "storeStamp"}
            => gwCalls' = gwCalls
         /\ (pc[p] = "storeStamp" /\ pc'[p] = "done")
            => /\ ~ret'[p].err /\ ~ret'[p].hit
               /\ ret'[p].sites = fetchLog[ret[p].src]
               /\ cacheSites' = fetchLog[ret[p].src]
               /\ fetchedAt' = clock
               /\ ret[p].src = Len(fetchLog)]_vars

\* a call found an expired non-empty snapshot and returned a newer fetch
C2_Witness ==
    \E p \in Procs :
        /\ pc[p] = "done" /\ ~ret[p].hit /\ ~ret[p].err
        /\ ret[p].obsSites > 0
        /\ Len(fetchLog[ret[p].obsSites]) > 0
        /\ ret[p].src > ret[p].obsSites
        /\ ret[p].sites # fetchLog[ret[p].obsSites]

\* C3: a call whose gateway fetch failed returns an error and no list
C3_FailedFetchIsError ==
    \A p \in Procs :
        (pc[p] = "done" /\ ret[p].fetchFailed)
        => (ret[p].err /\ ret[p].sites = <<>>)

\* a refresh failed while an expired non-empty snapshot was cached
C3_Witness ==
    \E p \in Procs :
        /\ pc[p] = "done" /\ ret[p].fetchFailed
        /\ ret[p].obsSites > 0
        /\ Len(fetchLog[ret[p].obsSites]) > 0
        /\ cacheSites = fetchLog[ret[p].obsSites]

\* C4: whenever the lock is free the stored snapshot and timestamp come from
\* the same fetch and the snapshot is that fetch's whole list; every caller
\* saw such a pair when it checked, and every list returned is the whole
\* result of one completed fetch
C4_ConsistentSnapshot ==
    /\ mu = 0 => sitesSrc = stampSrc
    /\ (mu = 0 /\ sitesSrc > 0) => cacheSites = fetchLog[sitesSrc]
    /\ \A p \in Procs :
         /\ pc[p] \in {"fetching", "storeSites", "storeStamp", "done"}
            => ret[p].obsSites = ret[p].obsStamp
         /\ (pc[p] = "done" /\ ~ret[p].err)
            => /\ ret[p].src \in 1..Len(fetchLog)
               /\ ret[p].sites = fetchLog[ret[p].src]

\* one caller is between the two stores of a replacement while another waits
C4_Witness ==
    \E p, q \in Procs :
        /\ p # q
        /\ pc[p] = "storeStamp" /\ pc[q] = "waiting"
        /\ sitesSrc # stampSrc

----------------------------------------------------------------------------
(* Properties of the nearest-stop scan (SpecScan) *)

ScanCap == IF Len(nearby) < maxScan THEN Len(nearby) ELSE maxScan

\* the last candidate the scan has dealt with
ScanReached == IF scanOut.kind = "found" THEN scanOut.idx ELSE scanIdx - 1

\* C5: candidates are queried in list order, which is ascending distance, each
\* at most once and at most min(15, n) of them; the scan returns at the first
\* answer holding a matching departure and queries nothing after it
C5_BoundedOrderedScan ==
    scanPc \in {"scan", "done"} =>
    /\ Len(scanCalls) <= ScanCap
    /\ \A i \in 1..(Len(scanCalls) - 1) :
         /\ scanCalls[i] < scanCalls[i + 1]
         /\ nearby[scanCalls[i]].DistanceKm <= nearby[scanCalls[i + 1]].DistanceKm
    /\ { scanCalls[i] : i \in 1..Len(scanCalls) }
         = { j \in 1..ScanReached : nearby[j].ID # 0 }
    /\ ~scanHist.missed
    /\ scanOut.kind = "found"
         => /\ scanOut.matched
            /\ scanCalls # <<>>
            /\ scanCalls[Len(scanCalls)] = scanOut.idx
            /\ scanOut.SiteID = nearby[scanOut.idx].ID
    /\ scanOut.kind = "notfound" => ScanReached = ScanCap

\* the fifteenth candidate matched and a sixteenth was never queried
C5_Witness ==
    /\ scanPc = "done" /\ scanOut.kind = "found"
    /\ scanOut.idx = maxScan
    /\ Len(nearby) > maxScan

\* C6: a failed departures fetch only moves the scan to the next candidate;
\* the scan ends either at the first matching candidate, however many nearer
\* ones failed, or after all of the first min(15, n) candidates
C6_FailureSkipsCandidate ==
    /\ scanPc = "done" => scanOut.kind \in {"found", "notfound"}
    /\ scanPc = "scan" => scanIdx = scanHist.nErr + scanHist.nSkip + 1
    /\ scanOut.kind = "found"
         => /\ scanOut.idx = scanHist.nErr + scanHist.nSkip + 1
            /\ scanOut.matched
            /\ Len(scanOut.Departures) > 0
    /\ scanOut.kind = "notfound"
         => scanHist.nErr + scanHist.nSkip = ScanCap

\* a candidate was returned after every nearer one had failed
C6_Witness ==
    /\ scanPc = "done" /\ scanOut.kind = "found"
    /\ scanHist.nErr >= 2
    /\ scanOut.idx = scanHist.nErr + 1

----------------------------------------------------------------------------
(* Properties of the name resolver (SpecResolve) *)

SetMin(S) == CHOOSE x \in S : \A y \in S : x <= y

\* resolveSiteID ran on rSites
Resolved == rPc \in {"returned", "exit"} /\ rOut.err # "fetching sites"

\* positions whose primary name equals the typed name, ignoring case
ExactIdx ==
    { i \in 1..Len(rSites) : ToLower(rSites[i].Name) = ToLower(rName) }

\* positions whose primary name contains the typed name, ignoring case
NameCands ==
    { i \in 1..Len(rSites) : Contains(ToLower(rSites[i].Name), ToLower(rName)) }

\* positions whose primary name or one of whose aliases contains it
AliasCands ==
    { i \in 1..Len(rSites) :
        \/ Contains(ToLower(rSites[i].Name), ToLower(rName))
        \/ \E a \in 1..Len(rSites[i].Aliases) :
             Contains(ToLower(rSites[i].Aliases[a]), ToLower(rName)) }

\* C7: without an exact match, no candidate is a not-found error, one
\* candidate is returned, several are an ambiguous error and none is returned
\* (candidates: sites whose primary name contains the input)
C7_NoneOneMany ==
    (Resolved /\ ExactIdx = {}) =>
    /\ Cardinality(NameCands) = 0 => (rOut.err = "notfound" /\ rOut.id = 0)
    /\ Cardinality(NameCands) = 1
         => (rOut.err = "none" /\ \A i \in NameCands : rOut.id = rSites[i].ID)
    /\ Cardinality(NameCands) >= 2 => (rOut.err = "ambiguous" /\ rOut.id = 0)

\* several different sites matched and none was picked
C7_Witness ==
    /\ Resolved /\ ExactIdx = {}
    /\ \E i, j \in NameCands : rSites[i].ID # rSites[j].ID
    /\ rOut.err = "ambiguous"

\* C8: when some primary name equals the input ignoring case, the first such
\* site is returned, wherever it sits and whatever else contains the input
C8_ExactMatchWins ==
    (Resolved /\ ExactIdx # {}) =>
    /\ rOut.err = "none"
    /\ rOut.id = rSites[SetMin(ExactIdx)].ID
    /\ stderr = <<>>

\* the exact match came last, after two substring candidates, and differs
\* from the input in letter case
C8_Witness ==
    /\ Resolved /\ ExactIdx = {Len(rSites)}
    /\ Cardinality(NameCands \ ExactIdx) >= 2
    /\ rSites[Len(rSites)].Name # rName
    /\ rOut.id = rSites[Len(rSites)].ID

\* C9 as stated: without an exact match the candidates are the sites whose
\* primary name or any alias contains the input; a sole candidate is
\* returned even when it matched through an alias only
C9_AliasCandidates ==
    (Resolved /\ ExactIdx = {}) =>
    /\ Cardinality(AliasCands) = 0 => rOut.err = "notfound"
    /\ Cardinality(AliasCands) = 1
         => (rOut.err = "none" /\ \A i \in AliasCands : rOut.id = rSites[i].ID)
    /\ Cardinality(AliasCands) >= 2 => rOut.err = "ambiguous"

\* the lines of stderr that name a candidate
ListedMatches == SelectSeq(stderr, LAMBDA l : l.kind = "match")

RECURSIVE CandSeq(_)
CandSeq(i) ==
    IF i > Len(rSites) THEN <<>>
    ELSE (IF i \in NameCands
          THEN << [kind |-> "match", name |-> rSites[i].Name, id |-> rSites[i].ID] >>
          ELSE <<>>) \o CandSeq(i + 1)

\* C10: an ambiguous resolution lists every candidate on stderr, name and
\* identifier, in list order, and the error Execute reports carries their
\* number
C10_AmbiguousListsAll ==
    (Resolved /\ rOut.err = "ambiguous") =>
    /\ ListedMatches = CandSeq(1)
    /\ rOut.count = Cardinality(NameCands)
    /\ rPc = "exit"
         => stderr[Len(stderr)] =
              [kind |-> "error", json |-> jsonOutput, err |-> "ambiguous",
               name |-> rName, count |-> Cardinality(NameCands)]

\* three candidates were listed and the error was reported
C10_Witness ==
    /\ rPc = "exit" /\ rOut.err = "ambiguous"
    /\ Len(ListedMatches) = 3
    /\ \E i, j \in NameCands : rSites[i].ID # rSites[j].ID

----------------------------------------------------------------------------
(* Properties of FindNearestSites (SpecNearest) *)

NearDone == fPc \in { "found", "printed" }

\* number of positions of the sequence s that hold x
Occurrences(s, x) == Cardinality({ i \in 1..Len(s) : s[i] = x })

FoundSites == [k \in 1..Len(fOut.elems) |-> fOut.elems[k].Site]

FromQuery(site) == DistanceKm(fLat, fLon, site.Lat, site.Lon)

\* C11: the result of FindNearestSites holds every site of the input whose
\* distance from the query point is at most the radius, once per occurrence
\* in the input, and no site beyond the radius; every element carries the
\* distance of its site, and the distances never decrease along the result.
C11_WithinRadiusSorted ==
    NearDone =>
        /\ \A k \in 1..Len(fOut.elems) :
              fOut.elems[k].DistanceKm = FromQuery(fOut.elems[k].Site)
        /\ \A k \in 1..Len(fSites) :
              Occurrences(FoundSites, fSites[k]) =
                  IF FromQuery(fSites[k]) <= fRadius
                  THEN Occurrences(fSites, fSites[k]) ELSE 0
        /\ Len(fOut.elems) <= Len(fSites)
        /\ \A k \in 1..(Len(fOut.elems) - 1) :
              fOut.elems[k].DistanceKm <= fOut.elems[k + 1].DistanceKm

\* a site was left out and the sort moved a later site ahead of an earlier one
C11_Witness ==
    /\ NearDone
    /\ Len(fOut.elems) >= 2
    /\ Len(fOut.elems) < Len(fSites)
    /\ fOut.order[1] > fOut.order[2]
    /\ fOut.elems[1].DistanceKm < fOut.elems[2].DistanceKm

\* C12: sites equally far from the query point appear in the result in the
\* relative order they have in the input list.
C12_TiesKeepInputOrder ==
    NearDone =>
        \A k, l \in 1..Len(fOut.elems) :
            (k < l /\ fOut.elems[k].DistanceKm = fOut.elems[l].DistanceKm)
                => fOut.order[k] < fOut.order[l]

\* C13 as stated: with a radius of zero or less the result is empty.
C13_NonPositiveRadiusEmpty ==
    (NearDone /\ fRadius <= 0) => Len(fOut.elems) = 0

\* C13: with a negative radius the result is empty; with a radius of exactly
\* zero the result holds the sites at the query coordinates, once per
\* occurrence, and nothing else.  The call has no error outcome.
C13_NegativeEmptyZeroCoincident ==
    NearDone =>
        /\ fRadius < 0 => Len(fOut.elems) = 0
        /\ fRadius = 0 =>
              /\ \A k \in 1..Len(fOut.elems) :
                    /\ fOut.elems[k].Site.Lat = fLat
                    /\ fOut.elems[k].Site.Lon = fLon
              /\ \A k \in 1..Len(fSites) :
                    (fSites[k].Lat = fLat /\ fSites[k].Lon = fLon)
                        => Occurrences(FoundSites, fSites[k]) =
                               Occurrences(fSites, fSites[k])

\* radius zero, one site at the query point and one elsewhere
C13_Witness ==
    /\ NearDone
    /\ fRadius = 0
    /\ Len(fOut.elems) = 1
    /\ Len(fSites) >= 2

\* C14: a collection that has no elements is handed on as an empty list and
\* written as [], never as the nil slice and null.
C14_EmptyNeverNull ==
    /\ (NearDone /\ Len(fOut.elems) = 0) => ~fOut.isNil
    /\ fPc = "printed" => ~stdout.null

----------------------------------------------------------------------------
(* Properties of ParseDepartures (SpecParse) *)

\* the records appended so far
Emitted == 1..Len(pdOut.elems)

ParseDone == pdPc = "done"

\* C15: ParseDepartures emits one record per raw departure, in the order of
\* the input: the result is as long as the input and its i-th record carries
\* the destination, direction, display and state of the i-th input.
C15_OneToOneInOrder ==
    /\ Len(pdOut.elems) <= Len(pdIn)
    /\ ParseDone => Len(pdOut.elems) = Len(pdIn)
    /\ \A i \in Emitted :
          /\ pdOut.elems[i].Destination = pdIn[i].Destination
          /\ pdOut.elems[i].Direction = pdIn[i].Direction
          /\ pdOut.elems[i].Display = pdIn[i].Display
          /\ pdOut.elems[i].State = pdIn[i].State

\* two raw departures with different destinations were parsed
C15_Witness ==
    /\ ParseDone
    /\ Len(pdIn) >= 2
    /\ pdIn[1].Destination # pdIn[2].Destination
    /\ pdOut.elems[2].Destination = pdIn[2].Destination

\* C16: when the nested line, stop area or stop point of a raw departure is
\* absent, the fields taken from it are empty strings in the parsed record,
\* and the record is emitted all the same: every combination of absent
\* nested records yields a record, none an error.
C16_AbsentNestedIsEmpty ==
    /\ \A i \in Emitted :
          /\ ~pdIn[i].HasLine =>
                /\ pdOut.elems[i].Line = <<>>
                /\ pdOut.elems[i].TransportMode = <<>>
                /\ pdOut.elems[i].GroupOfLines = <<>>
          /\ ~pdIn[i].HasStopArea => pdOut.elems[i].StopArea = <<>>
          /\ ~pdIn[i].HasStopPoint =>
                /\ pdOut.elems[i].StopPoint = <<>>
                /\ pdOut.elems[i].Platform = <<>>
    /\ ParseDone => \A i \in 1..Len(pdIn) : i \in Emitted

\* a departure without line, stop area and stop point was parsed next to
\* one that has them
C16_Witness ==
    /\ ParseDone
    /\ \E i, j \in Emitted :
          /\ ~pdIn[i].HasLine /\ ~pdIn[i].HasStopArea /\ ~pdIn[i].HasStopPoint
          /\ pdIn[j].HasLine /\ pdOut.elems[j].Line # <<>>

Parses(text) == text.kind = "stamp"

\* whole minutes from now until t, rounded up, and none for a past t
MinutesUntil(now, t) ==
    CHOOSE m \in 0..(MaxTicks * TickSeconds + 2 * SecondsPerMinute) :
        /\ m * SecondsPerMinute >= t - now
        /\ m > 0 => (m - 1) * SecondsPerMinute < t - now

HasReference(d) == Parses(d.Expected) \/ Parses(d.Scheduled)

ReferenceSeconds(d) == IF Parses(d.Expected) THEN d.Expected.t ELSE d.Scheduled.t

\* C17: for a departure that has a reference instant, MinutesLeft is the
\* time from the current instant to the reference instant in minutes,
\* rounded up, and 0 when that is negative: it is never negative and is 0
\* when the reference instant is not after the current instant.
C17_MinutesLeftCeilClamped ==
    \A i \in Emitted :
        HasReference(pdIn[i]) =>
            /\ pdOut.elems[i].MinutesLeft = MinutesUntil(pdNow, ReferenceSeconds(pdIn[i]))
            /\ pdOut.elems[i].MinutesLeft >= 0
            /\ ReferenceSeconds(pdIn[i]) <= pdNow => pdOut.elems[i].MinutesLeft = 0

\* a departure half a minute or so ahead counts as a whole minute, one in
\* the past as none
C17_Witness ==
    /\ ParseDone
    /\ \E i, j \in Emitted :
          /\ HasReference(pdIn[i])
          /\ ReferenceSeconds(pdIn[i]) > pdNow
          /\ (ReferenceSeconds(pdIn[i]) - pdNow) % SecondsPerMinute # 0
          /\ pdOut.elems[i].MinutesLeft >= 1
          /\ HasReference(pdIn[j])
          /\ ReferenceSeconds(pdIn[j]) < pdNow
          /\ pdOut.elems[j].MinutesLeft = 0

\* C18: the expected time is the reference whenever it parses, also when the
\* scheduled time parses and differs; the scheduled time is the reference
\* only when the expected time is absent or does not parse; when neither
\* parses both instants stay unset, MinutesLeft is 0 and the record is
\* emitted.
C18_ExpectedBeforeScheduled ==
    /\ \A i \in Emitted :
          LET d == pdIn[i]
              pd == pdOut.elems[i]
          IN  /\ Parses(d.Expected) =>
                    /\ pd.Expected = Instant(d.Expected.t)
                    /\ pd.MinutesLeft = MinutesUntil(pdNow, d.Expected.t)
              /\ (~Parses(d.Expected) /\ Parses(d.Scheduled)) =>
                    /\ pd.Expected = NoInstant
                    /\ pd.Scheduled = Instant(d.Scheduled.t)
                    /\ pd.MinutesLeft = MinutesUntil(pdNow, d.Scheduled.t)
              /\ (~Parses(d.Expected) /\ ~Parses(d.Scheduled)) =>
                    /\ pd.Expected = NoInstant
                    /\ pd.Scheduled = NoInstant
                    /\ pd.MinutesLeft = 0
    /\ ParseDone => Len(pdOut.elems) = Len(pdIn)

\* one departure whose two times parse and give different minutes, and one
\* without any time
C18_Witness ==
    /\ ParseDone
    /\ \E i, j \in Emitted :
          /\ Parses(pdIn[i].Expected) /\ Parses(pdIn[i].Scheduled)
          /\ MinutesUntil(pdNow, pdIn[i].Expected.t) #
                 MinutesUntil(pdNow, pdIn[i].Scheduled.t)
          /\ ~HasReference(pdIn[j])
          /\ pdOut.elems[j].MinutesLeft = 0

\* C19: one call of ParseDepartures reads the clock once, before it
\* processes any record, and counts the minutes of every record from that
\* reading: records with equal reference instants get equal MinutesLeft
\* however far the clock moves during the call.
C19_OneClockReading ==
    /\ Len(pdReads) <= 1
    /\ (pdPc \in { "loop", "done" } \/ Len(pdOut.elems) > 0) =>
          /\ Len(pdReads) = 1
          /\ pdNow = pdReads[1]
          /\ \A i \in Emitted : pdAt[i] >= pdReads[1]
    /\ \A i \in Emitted :
          HasReference(pdIn[i]) =>
              pdOut.elems[i].MinutesLeft =
                  MinutesUntil(pdReads[1], ReferenceSeconds(pdIn[i]))
    /\ \A i, j \in Emitted :
          (/\ HasReference(pdIn[i])
           /\ HasReference(pdIn[j])
           /\ ReferenceSeconds(pdIn[i]) = ReferenceSeconds(pdIn[j]))
              => pdOut.elems[i].MinutesLeft = pdOut.elems[j].MinutesLeft

\* the clock moved between two records with the same reference instant, far
\* enough to change the minutes had it been read again
C19_Witness ==
    /\ ParseDone
    /\ \E i, j \in Emitted :
          /\ i < j
          /\ HasReference(pdIn[i])
          /\ HasReference(pdIn[j])
          /\ ReferenceSeconds(pdIn[i]) = ReferenceSeconds(pdIn[j])
          /\ pdAt[i] < pdAt[j]
          /\ MinutesUntil(pdAt[j], ReferenceSeconds(pdIn[j])) #
                 MinutesUntil(pdAt[i], ReferenceSeconds(pdIn[i]))
          /\ pdOut.elems[i].MinutesLeft = pdOut.elems[j].MinutesLeft

----------------------------------------------------------------------------
(* Properties of the departure filters (SpecFilter) *)

\* the records of deps that satisfy keep, in the order of deps
RECURSIVE Kept(_, _)
Kept(deps, keep) ==
    IF deps = <<>> THEN <<>>
    ELSE IF Head(deps) \in keep THEN <<Head(deps)>> \o Kept(Tail(deps), keep)
    ELSE Kept(Tail(deps), keep)

\* the strings a and b are equal once the case of their letters is ignored
SameIgnoringCase(a, b) ==
    /\ Len(a) = Len(b)
    /\ \A i \in 1..Len(a) : a[i] \in { b[i], LowerChar(b[i]), UpperChar(b[i]) }

----------------------------------------------------------------------------
(* Properties of FilterByDirection (SpecDirection) *)

\* sub occurs in s at some position once the case of the letters is ignored
OccursIgnoringCase(sub, s) ==
    \E k \in 1..(Len(s) - Len(sub) + 1) :
        SameIgnoringCase(SubSeq(s, k, k + Len(sub) - 1), sub)

\* C21: with an empty filter FilterByDirection returns its input unchanged;
\* with a non-empty filter it returns the records whose destination or
\* whose direction contains the filter, case ignored, all of them and in
\* input order; a record that matches through one field only is kept.
C21_DirectionEitherField ==
    drPc = "done" =>
        drOut =
            IF drFilter = <<>> THEN drDeps
            ELSE Kept(drDeps, { d \in DirectedDepartures :
                                  \/ OccursIgnoringCase(drFilter, d.Destination)
                                  \/ OccursIgnoringCase(drFilter, d.Direction) })

\* of two records one was kept through its direction label alone and the
\* other dropped
C21_Witness ==
    /\ drPc = "done"
    /\ drFilter # <<>>
    /\ Len(drDeps) = 2
    /\ Len(drOut) = 1
    /\ OccursIgnoringCase(drFilter, drOut[1].Direction)
    /\ ~OccursIgnoringCase(drFilter, drOut[1].Destination)
    /\ drOut[1].Direction # drFilter

----------------------------------------------------------------------------
(* Properties of the deviation lookups (SpecDeviations) *)

Enriched == dvPc \in { "enriched", "done" }

\* the deviation has a scope that lists a line of the set
InScope(dev, lineSet) ==
    dev.HasScope /\ \E i \in 1..Len(dev.Lines) : dev.Lines[i] \in lineSet

\* the same for the designations typed on the command line, whose case does
\* not matter
InScopeOfRequest(dev, designations) ==
    /\ dev.HasScope
    /\ \E i \in 1..Len(dev.Lines), j \in 1..Len(designations) :
          SameIgnoringCase(dev.Lines[i], designations[j])

\* C22: a deviation appears in a line-filtered result exactly when it has a
\* scope and the scope lists a line of the requested set; a deviation
\* without scope never appears, an empty set gives no deviations, and the
\* deviations that appear do so once each and in input order.  This is
\* stated of the summaries of fetchRelevantDeviations and of the list of
\* filterDeviationsByLine.
C22_RelevantIffScopeLine ==
    /\ (Enriched /\ ~dvGateway.err) =>
          dvOut.from =
              SelectSeq([i \in 1..Len(dvGateway.Deviations) |-> i],
                        LAMBDA i : InScope(dvGateway.Deviations[i], LineSet(dvDeps)))
    /\ dvPc = "done" =>
          dvOut.filtered =
              Kept(dvGateway.Deviations,
                   { dev \in Deviations : InScopeOfRequest(dev, dvLines) })

\* the headers of the variants of dev in the language lang
HeadersIn(dev, lang) ==
    { dev.MessageVariants[i].Header :
        i \in { j \in 1..Len(dev.MessageVariants) :
                  dev.MessageVariants[j].Language = lang } }

\* C23: a relevant deviation gives at most one summary; a deviation with an
\* English variant gives the English one wherever it stands among the
\* variants, a deviation whose only variant is Swedish gives that one, and
\* no deviation gives both.
C23_EnglishPreferred ==
    Enriched =>
        /\ Len(dvOut.from) = Len(dvOut.Deviations)
        /\ \A k, l \in 1..Len(dvOut.from) : k < l => dvOut.from[k] < dvOut.from[l]
        /\ \A k \in 1..Len(dvOut.from) :
              LET dev == dvGateway.Deviations[dvOut.from[k]] IN
              /\ HeadersIn(dev, "en") # {} =>
                    dvOut.Deviations[k].Header \in HeadersIn(dev, "en")
              /\ (Len(dev.MessageVariants) = 1 /\ HeadersIn(dev, "sv") # {}) =>
                    dvOut.Deviations[k].Header \in HeadersIn(dev, "sv")
        /\ ~dvGateway.err =>
              \A i \in 1..Len(dvGateway.Deviations) :
                  LET dev == dvGateway.Deviations[i] IN
                  (/\ InScope(dev, LineSet(dvDeps))
                   /\ \/ HeadersIn(dev, "en") # {}
                      \/ (Len(dev.MessageVariants) = 1 /\ HeadersIn(dev, "sv") # {}))
                      => \E k \in 1..Len(dvOut.from) : dvOut.from[k] = i

\* a deviation whose Swedish variant comes first gave its English header,
\* next to a deviation that has a Swedish variant only
C23_Witness ==
    /\ Enriched
    /\ Len(dvOut.Deviations) = 2
    /\ \E k, l \in 1..2 :
          /\ dvGateway.Deviations[dvOut.from[k]].MessageVariants[1].Language = "sv"
          /\ HeadersIn(dvGateway.Deviations[dvOut.from[k]], "en") # {}
          /\ dvOut.Deviations[k].Header
                 \in HeadersIn(dvGateway.Deviations[dvOut.from[k]], "en")
          /\ HeadersIn(dvGateway.Deviations[dvOut.from[l]], "en") = {}
          /\ dvOut.Deviations[l].Header
                 \in HeadersIn(dvGateway.Deviations[dvOut.from[l]], "sv")

\* C24: when the departures were fetched and the deviations request fails,
\* the departures request succeeds all the same: it returns the departures
\* it returns with any deviations answer, and no deviations; the failure is
\* not passed on.
C24_DeviationFailureSwallowed ==
    Enriched =>
        /\ ~dvOut.err
        /\ dvOut.Departures = Truncate(dvDeps, dvLimit)
        /\ dvGateway.err => dvOut.Deviations = <<>>

\* the deviations request was made for a line and failed
C24_Witness ==
    /\ Enriched
    /\ dvGateway.err
    /\ LineSet(dvDeps) # {}
    /\ Len(dvOut.Departures) > 0
    /\ ~dvOut.err

----------------------------------------------------------------------------
(* Properties of runTrip (SpecTrip) *)

TripPlanned == tpPc = "done" /\ ~tpGateway.resolveErr /\ ~tpGateway.err

\* C25: when the journey planner answers and one of its system messages is
\* of type error, runTrip fails and prints no journeys, also when the
\* answer holds journeys; when every system message is of another type the
\* command does not fail and prints the journeys of the answer.
C25_SystemErrorFails ==
    TripPlanned =>
        IF "error" \in { tpGateway.SystemMessages[i] :
                           i \in 1..Len(tpGateway.SystemMessages) }
        THEN tpOut.err # "none" /\ ~tpOut.printed /\ tpOut.Journeys = <<>>
        ELSE tpOut.err = "none" /\ tpOut.printed /\ tpOut.Journeys = tpGateway.Journeys

\* an answer with journeys whose second message is the error
C25_Witness ==
    /\ TripPlanned
    /\ Len(tpGateway.Journeys) > 0
    /\ Len(tpGateway.SystemMessages) = 2
    /\ tpGateway.SystemMessages[1] = "warning"
    /\ tpGateway.SystemMessages[2] = "error"
    /\ tpOut.err = "journey planner"

----------------------------------------------------------------------------
(* Termination (SpecLive) *)

\* C26: every invocation comes to an end: a caller waiting for the lock of
\* the site cache is served in the end, whoever holds the lock meanwhile
\* and whether the fetches succeed or fail, and the scan of the nearby
\* stops ends after its bounded number of gateway calls.
C26_EveryCallReturns ==
    /\ \A p \in Procs : (pc[p] = "waiting") ~> (pc[p] = "done")
    /\ (scanPc = "scan") ~> (scanPc = "done")

\* a caller waits for the lock while another caller's fetch is under way
C26_Witness ==
    \E p, q \in Procs :
        /\ pc[p] = "waiting"
        /\ pc[q] = "fetching"
        /\ mu = q

----------------------------------------------------------------------------
(* Properties of sl departures --address (SpecAddress) *)

AddressServed ==
    /\ adPc = "done"
    /\ ~adGateway.geocodeErr /\ ~adGateway.sitesErr /\ ~adGateway.departuresErr
    /\ Len(adNearby) > 0

\* C27: with --address and neither --line nor --mode the command returns
\* the departures of all the stops within the radius, up to five of them
\* and nearest first, one entry per stop, not those of the closest stop
\* alone.
C27_AllNearbyStops ==
    (AddressServed /\ ~adFiltered) =>
        /\ Len(adOut.stops) = IF Len(adNearby) < 5 THEN Len(adNearby) ELSE 5
        /\ \A i \in 1..Len(adOut.stops) : adOut.stops[i] = adNearby[i].ID

----------------------------------------------------------------------------
(* Properties of extractLines (SpecExtract) *)

\* the key of the entry e of the result
EntryKey(e) ==
    [designation |-> e.Designation, transportMode |-> e.TransportMode,
     groupOfLines |-> e.GroupOfLines]

\* position of the first departure of xlIn with the key
FirstSeen(key) ==
    CHOOSE i \in 1..Len(xlIn) :
        /\ lineKey(xlIn[i]) = key
        /\ \A j \in 1..(i - 1) : lineKey(xlIn[j]) # key

\* C28: extractLines returns one entry for every distinct key (designation,
\* transport mode, line group) of its input, the entries standing in the
\* order in which the keys first appear; the destinations of an entry are
\* the distinct non-empty destinations of the departures with its key, each
\* once; an empty input gives a result of length 0.
C28_OneEntryPerLine ==
    xlPc = "done" =>
        /\ Len(xlOut) = Cardinality({ lineKey(xlIn[i]) : i \in 1..Len(xlIn) })
        /\ \A i \in 1..Len(xlOut) :
              \E j \in 1..Len(xlIn) : lineKey(xlIn[j]) = EntryKey(xlOut[i])
        /\ \A i, j \in 1..Len(xlOut) :
              i < j => FirstSeen(EntryKey(xlOut[i])) < FirstSeen(EntryKey(xlOut[j]))
        /\ \A i \in 1..Len(xlOut) :
              LET ds == xlOut[i].Destinations IN
              /\ \A k, l \in 1..Len(ds) : k # l => ds[k] # ds[l]
              /\ { ds[k] : k \in 1..Len(ds) } =
                     { xlIn[j].Destination :
                         j \in { m \in 1..Len(xlIn) :
                                   /\ lineKey(xlIn[m]) = EntryKey(xlOut[i])
                                   /\ xlIn[m].Destination # <<>> } }
        /\ xlIn = <<>> => Len(xlOut) = 0

\* three departures of two lines; the line seen twice has one destination,
\* the other departure of it having the same or none
C28_Witness ==
    /\ xlPc = "done"
    /\ Len(xlIn) = 3
    /\ Len(xlOut) = 2
    /\ lineKey(xlIn[1]) = lineKey(xlIn[3])
    /\ xlIn[3].Destination = <<>>
    /\ Len(xlOut[1].Destinations) = 1
    /\ Len(xlOut[2].Destinations) = 1

----------------------------------------------------------------------------
(* Frame and exclusion properties of the site directory cache (SpecCache) *)

\* the gateway fetch of p fails in this step
FetchFails(p) == pc[p] = "fetching" /\ pc'[p] = "done"

\* C29: from the moment a call has passed its freshness check until its
\* gateway fetch fails, the cached snapshot and the fetch timestamp stay as
\* the call found them: the failure neither clears nor truncates nor
\* re-stamps the cache.  After a failed refresh the snapshot is still not
\* fresh, and a call that checks a snapshot that is not fresh fetches again.
C29_FailureLeavesCache ==
    [][\A p \in Procs :
         /\ pc[p] = "fetching"
            => /\ cacheSites' = cacheSites /\ fetchedAt' = fetchedAt
               /\ sitesSrc = ret[p].obsSites /\ stampSrc = ret[p].obsStamp
               /\ sitesSrc' = sitesSrc /\ stampSrc' = stampSrc
         /\ FetchFails(p)
            => /\ ret'[p].fetchFailed
               /\ ~(Len(cacheSites') > 0 /\ clock' - fetchedAt' < siteCacheTTL)
         /\ (Checks(p) /\ ~CacheFresh)
            => (pc'[p] = "fetching" /\ gwCalls' = gwCalls + 1)]_vars

\* the refresh of an expired non-empty snapshot failed, the snapshot is
\* still stored, and the next call is fetching again
C29_Witness ==
    \E p, q \in Procs :
        /\ p # q
        /\ pc[p] = "done" /\ ret[p].fetchFailed
        /\ ret[p].obsSites > 0
        /\ Len(cacheSites) > 0
        /\ cacheSites = fetchLog[ret[p].obsSites]
        /\ pc[q] = "fetching"
        /\ ret[q].obsSites = ret[p].obsSites

\* callers between the freshness check and the return of a fetching call
InSequence == { p \in Procs : pc[p] \in {"fetching", "storeSites", "storeStamp"} }

====
